---- MODULE Spec2Model ----
(***************************************************************************)
(* A model of faanross/dns-encryption-simulator: the authoritative         *)
(* responder shared by the UDP, DoH and DoT listeners, and the beacon      *)
(* loop that queries it through one of three clients.                      *)
(*                                                                         *)
(* Text (domain names) is a sequence of one-character strings, so that     *)
(* the string functions of the code (Fqdn, Split, CompareDomainName) are   *)
(* computed character by character as the library computes them.          *)
(***************************************************************************)
EXTENDS Integers, Sequences, FiniteSets, TLC

(***************************************************************************)
(* Bounds of the model.                                                    *)
(***************************************************************************)
\* most labels of a queried name
MaxLabels == 3
\* most questions of one query
MaxQuestions == 2
\* most ServeDNS calls of one run (caps the uint64 counter)
MaxCalls == 3

\* the labels queried names are built from ("bb" ends with "b", "B" is "b" in upper case)
LabelSet == { <<"a">>, <<"b">>, <<"b", "b">>, <<"B">> }

(***************************************************************************)
(* Program constants: github.com/miekg/dns type and response codes as the  *)
(* code names them.                                                        *)
(***************************************************************************)
TypeA == "A"
TypeNS == "NS"
TypeAAAA == "AAAA"
TypeMX == "MX"
QTypes == {TypeA, TypeNS, TypeAAAA, TypeMX}

RcodeSuccess == "NOERROR"
RcodeNameError == "NXDOMAIN"
RcodeFormatError == "FORMERR"

(***************************************************************************)
(* Text helpers.                                                           *)
(***************************************************************************)
Dot == "."

\* strings.ToLower / the library's case-insensitive `equal`, on the letters in use
LowerCh(c) == IF c = "A" THEN "a" ELSE IF c = "B" THEN "b" ELSE c

ToLower(s) == [i \in 1..Len(s) |-> LowerCh(s[i])]

\* dns.equal: compare two strings ignoring ASCII case
EqualFold(s, t) == ToLower(s) = ToLower(t)

\* Go's s[from:to), on 1-based positions from..to-1
Slice(s, from, to) == [i \in 1..(to - from) |-> s[from + i - 1]]

\* dns.IsFqdn: the name ends with an (unescaped) dot
IsFqdn(s) == Len(s) > 0 /\ s[Len(s)] = Dot

\* dns.Fqdn: append the root dot when it is missing
Fqdn(s) == IF IsFqdn(s) THEN s ELSE s \o <<Dot>>

RECURSIVE SplitFrom(_, _)
\* the label starts of s after position i: one past every dot that is not the last character
SplitFrom(s, i) ==
    IF i > Len(s) - 1 THEN <<>>
    ELSE IF s[i] = Dot THEN <<i + 1>> \o SplitFrom(s, i + 1)
    ELSE SplitFrom(s, i + 1)

\* dns.Split: the offsets (here 1-based) at which the labels of s start; none for the root
Split(s) == IF s = <<Dot>> THEN <<>> ELSE <<1>> \o SplitFrom(s, 1)

\* dns.CountLabel
CountLabel(s) == IF s = <<Dot>> THEN 0 ELSE Len(Split(s))

\* the k-th label from the right of s (k = 1 is the last one), up to the start of the
\* label after it; the last label runs to the end of s, the root dot included
LabelFromRight(s, k) ==
    LET l == Split(s)
        j == Len(l) - k + 1
    IN  IF k = 1 THEN Slice(s, l[j], Len(s) + 1) ELSE Slice(s, l[j], l[j + 1])

RECURSIVE CommonLabels(_, _, _)
\* how many labels s1 and s2 share counted from the right, starting at the k-th
CommonLabels(s1, s2, k) ==
    IF k > Len(Split(s1)) \/ k > Len(Split(s2)) THEN 0
    ELSE IF EqualFold(LabelFromRight(s1, k), LabelFromRight(s2, k))
         THEN 1 + CommonLabels(s1, s2, k + 1)
         ELSE 0

\* dns.CompareDomainName: the number of labels two names share from the right
CompareDomainName(s1, s2) ==
    IF s1 = <<Dot>> \/ s2 = <<Dot>> THEN 0 ELSE CommonLabels(s1, s2, 1)

\* dns.IsSubDomain
IsSubDomain(parent, child) == CompareDomainName(parent, child) = CountLabel(parent)

(***************************************************************************)
(* IP addresses (net.IP): n is the length of the byte slice (0 is nil),     *)
(* v4 tells whether the bytes hold an IPv4 address, text is its String().   *)
(***************************************************************************)
IPv4Texts == {"127.0.0.1"}
IPv6Texts == {"::1"}
NilIP == [n |-> 0, v4 |-> FALSE, text |-> "<nil>"]

\* net.ParseIP: the 16-byte form of an IPv4 or IPv6 text, nil for anything else
ParseIP(s) ==
    IF s \in IPv4Texts THEN [n |-> 16, v4 |-> TRUE, text |-> s]
    ELSE IF s \in IPv6Texts THEN [n |-> 16, v4 |-> FALSE, text |-> s]
    ELSE NilIP

\* net.IP.To4: the 4-byte form of an IPv4 address, nil when the address is not IPv4
To4(ip) ==
    IF ip.n = 4 THEN ip
    ELSE IF ip.n = 16 /\ ip.v4 THEN [n |-> 4, v4 |-> TRUE, text |-> ip.text]
    ELSE NilIP

\* net.IP.String
IPString(ip) == IF ip.n = 0 THEN "<nil>" ELSE ip.text

(***************************************************************************)
(* DNS messages (dns.Msg) and their wire form.  The wire form is a          *)
(* sequence of fields: the header <<Id, Response, Rcode, qdcount, ancount>>,*)
(* then name and type of every question, then name, type, ttl, rdlength     *)
(* and (when rdlength > 0) rdata of every answer record.                    *)
(***************************************************************************)
NewMsg == [Id |-> 0, Response |-> FALSE, Rcode |-> RcodeSuccess,
           Question |-> <<>>, Answer |-> <<>>]

NoMsg == [Id |-> -1, Response |-> FALSE, Rcode |-> "none",
          Question |-> <<>>, Answer |-> <<>>]

\* dns.Msg.SetReply: copy the id and the first question, mark as response, rcode success
SetReply(m, r) ==
    [m EXCEPT !.Id = r.Id, !.Response = TRUE, !.Rcode = RcodeSuccess,
              !.Question = IF Len(r.Question) > 0 THEN <<r.Question[1]>> ELSE <<>>]

\* dns.Msg.SetRcode: SetReply, then the response code
SetRcode(m, r, rcode) == [SetReply(m, r) EXCEPT !.Rcode = rcode]

\* the rdata of a record on the wire: <<rdlength, data>> or <<0>> when it has none
PackRdata(rr) ==
    IF rr.Rrtype = TypeA
    THEN IF rr.A.n = 0 THEN <<0>> ELSE <<rr.A.n, rr.A>>
    ELSE <<Len(rr.Ns), rr.Ns>>

RECURSIVE PackQuestions(_)
PackQuestions(qs) ==
    IF qs = <<>> THEN <<>>
    ELSE <<qs[1].Name, qs[1].Qtype>> \o PackQuestions(Tail(qs))

RECURSIVE PackAnswers(_)
PackAnswers(rrs) ==
    IF rrs = <<>> THEN <<>>
    ELSE <<rrs[1].Name, rrs[1].Rrtype, rrs[1].Ttl>> \o PackRdata(rrs[1])
         \o PackAnswers(Tail(rrs))

\* an A record packs only with a nil or a 4-byte address
Packable(m) ==
    \A i \in 1..Len(m.Answer) :
        m.Answer[i].Rrtype = TypeA => m.Answer[i].A.n \in {0, 4}

\* dns.Msg.Pack
Pack(m) ==
    IF Packable(m)
    THEN [ok |-> TRUE,
          bytes |-> <<m.Id, m.Response, m.Rcode, Len(m.Question), Len(m.Answer)>>
                    \o PackQuestions(m.Question) \o PackAnswers(m.Answer)]
    ELSE [ok |-> FALSE, bytes |-> <<>>]

RECURSIVE UnpackQuestions(_, _, _)
\* read n questions of b from position off: [ok, qs, off]
UnpackQuestions(b, off, n) ==
    IF n = 0 THEN [ok |-> TRUE, qs |-> <<>>, off |-> off]
    ELSE IF off + 1 > Len(b) THEN [ok |-> FALSE, qs |-> <<>>, off |-> off]
    ELSE LET rest == UnpackQuestions(b, off + 2, n - 1)
         IN  [ok |-> rest.ok,
              qs |-> <<[Name |-> b[off], Qtype |-> b[off + 1]]>> \o rest.qs,
              off |-> rest.off]

\* one record of b at position off: a record without rdata keeps its header only
UnpackRR(b, off) ==
    LET hdr == [Name |-> b[off], Rrtype |-> b[off + 1], Ttl |-> b[off + 2]]
        rdlength == b[off + 3]
    IN  IF rdlength = 0
        THEN [ok |-> TRUE, off |-> off + 4,
              rr |-> IF hdr.Rrtype = TypeA
                     THEN [Name |-> hdr.Name, Rrtype |-> hdr.Rrtype, Ttl |-> hdr.Ttl,
                           A |-> NilIP]
                     ELSE [Name |-> hdr.Name, Rrtype |-> hdr.Rrtype, Ttl |-> hdr.Ttl,
                           Ns |-> <<>>]]
        ELSE IF off + 4 > Len(b)
        THEN [ok |-> FALSE, off |-> off, rr |-> hdr]
        ELSE [ok |-> TRUE, off |-> off + 5,
              rr |-> IF hdr.Rrtype = TypeA
                     THEN [Name |-> hdr.Name, Rrtype |-> hdr.Rrtype, Ttl |-> hdr.Ttl,
                           A |-> b[off + 4]]
                     ELSE [Name |-> hdr.Name, Rrtype |-> hdr.Rrtype, Ttl |-> hdr.Ttl,
                           Ns |-> b[off + 4]]]

RECURSIVE UnpackAnswers(_, _, _)
\* read n records of b from position off: [ok, rrs, off]
UnpackAnswers(b, off, n) ==
    IF n = 0 THEN [ok |-> TRUE, rrs |-> <<>>, off |-> off]
    ELSE IF off + 3 > Len(b) THEN [ok |-> FALSE, rrs |-> <<>>, off |-> off]
    ELSE LET one == UnpackRR(b, off)
         IN  IF ~one.ok THEN [ok |-> FALSE, rrs |-> <<>>, off |-> off]
             ELSE LET rest == UnpackAnswers(b, one.off, n - 1)
                  IN  [ok |-> rest.ok, rrs |-> <<one.rr>> \o rest.rrs, off |-> rest.off]

\* dns.Msg.Unpack: [ok, msg]
Unpack(b) ==
    IF Len(b) < 5 THEN [ok |-> FALSE, msg |-> NoMsg]
    ELSE LET q == UnpackQuestions(b, 6, b[4])
         IN  IF ~q.ok THEN [ok |-> FALSE, msg |-> NoMsg]
             ELSE LET a == UnpackAnswers(b, q.off, b[5])
                  IN  IF ~a.ok THEN [ok |-> FALSE, msg |-> NoMsg]
                      ELSE [ok |-> TRUE,
                            msg |-> [Id |-> b[1], Response |-> b[2], Rcode |-> b[3],
                                     Question |-> q.qs, Answer |-> a.rrs]]

(***************************************************************************)
(* The inputs of the responder model: configurations and queries.          *)
(***************************************************************************)
\* cfg.Domain: unqualified, fully qualified, and the empty name (the root once qualified)
CfgDomains == { <<"b", ".", "a">>, <<"b", ".", "a", ".">>, <<>> }
\* cfg.ResponseIP: an IPv4 text, an IPv6 text, and a text that is no address
CfgIPs == {"127.0.0.1", "::1", "not-an-ip"}
\* cfg.TTL
CfgTTLs == {60, 300}

RECURSIVE NamesOf(_)
\* the fully qualified names of exactly n labels
NamesOf(n) ==
    IF n = 0 THEN { <<>> }
    ELSE { l \o <<Dot>> \o r : l \in LabelSet, r \in NamesOf(n - 1) }

\* the names a query can ask for: the root and every name of 1..MaxLabels labels
QNames == { <<Dot>> } \cup UNION { NamesOf(n) : n \in 1..MaxLabels }

Questions == [Name : QNames, Qtype : QTypes]

\* the questions that queries of several (or no) questions are built from
PoolQuestions ==
    { [Name |-> <<"b", ".", "a", ".">>, Qtype |-> TypeA],
      [Name |-> <<"a", ".", "b", ".", "a", ".">>, Qtype |-> TypeNS],
      [Name |-> <<"b", ".", "a", ".">>, Qtype |-> TypeAAAA],
      [Name |-> <<"a", ".">>, Qtype |-> TypeA] }

RECURSIVE ListsOf(_, _)
\* the sequences of exactly n elements of S
ListsOf(S, n) ==
    IF n = 0 THEN { <<>> }
    ELSE { <<x>> \o r : x \in S, r \in ListsOf(S, n - 1) }

QueryIds == {7}

Query(id, qs) == [Id |-> id, Response |-> FALSE, Rcode |-> RcodeSuccess,
                  Question |-> qs, Answer |-> <<>>]

\* every query of one question, and the queries of 0 and 2..MaxQuestions pool questions
SerialQueries ==
    { Query(id, <<q>>) : id \in QueryIds, q \in Questions }
    \cup { Query(id, qs) : id \in QueryIds,
                           qs \in UNION { ListsOf(PoolQuestions, n) :
                                          n \in {0} \cup 2..MaxQuestions } }

\* the queries that concurrent clients send
ParallelQueries ==
    { Query(7, <<[Name |-> <<"b", ".", "a", ".">>, Qtype |-> TypeA]>>),
      Query(7, <<[Name |-> <<"a", ".">>, Qtype |-> TypeA]>>),
      Query(7, <<[Name |-> <<"b", ".", "a", ".">>, Qtype |-> TypeNS],
                 [Name |-> <<"b", ".", "a", ".">>, Qtype |-> TypeAAAA]>>) }

QueriesFor(ld) == IF ld = "serial" THEN SerialQueries ELSE ParallelQueries

\* bodies that do not unpack: an empty one, and a header that promises a question
MalformedBodies == { <<>>, <<7, FALSE, RcodeSuccess, 1, 0>> }

ContentTypeDNS == "application/dns-message"

\* what a client can send to a stream or datagram listener
DNSRequests(ld) ==
    { [method |-> "-", ctype |-> "-", readErr |-> FALSE, body |-> Pack(q).bytes] :
        q \in QueriesFor(ld) }
    \cup { [method |-> "-", ctype |-> "-", readErr |-> FALSE, body |-> b] :
             b \in IF ld = "serial" THEN MalformedBodies ELSE {} }

\* what a client can send to /dns-query
DoHRequests(ld) ==
    { [method |-> "POST", ctype |-> ContentTypeDNS, readErr |-> FALSE,
       body |-> Pack(q).bytes] : q \in QueriesFor(ld) }
    \cup { [method |-> "POST", ctype |-> ContentTypeDNS, readErr |-> FALSE, body |-> b] :
             b \in MalformedBodies }
    \cup { [method |-> m, ctype |-> c, readErr |-> e,
            body |-> Pack(Query(7, <<[Name |-> <<"b", ".", "a", ".">>,
                                       Qtype |-> TypeA]>>)).bytes] :
             m \in {"POST", "GET"}, c \in {ContentTypeDNS, "text/plain"},
             e \in BOOLEAN }

(***************************************************************************)
(* State.                                                                  *)
(***************************************************************************)
VARIABLES
    \* Server (internal/dns/server.go)
    srvErr,       \* NewServer returned an error: no responder, no listener
    domain,       \* Server.domain
    responseIP,   \* Server.responseIP
    ttl,          \* Server.ttl
    mu,           \* Server.mu: "free" or the listener whose handler holds it
    queryCount,   \* Server.queryCount
    \* one request handler per listener
    load,         \* "serial": clients send one request at a time; "parallel": at once
    pc,           \* where each handler is
    req,          \* the inbound request of each handler
    query,        \* the unpacked query r
    msg,          \* ServeDNS's msg
    tmp,          \* the value of queryCount read by s.queryCount++
    currentCount, \* ServeDNS's currentCount
    response,     \* handleDoHRequest's response
    dnsWriter,    \* dohResponseWriter.response
    out,          \* what the listener sent back
    result,       \* what the client made of it
    calls,        \* how many times ServeDNS has been entered
    passed,       \* how many ServeDNS calls have done the increment
    \* Beacon (internal/dns/beacon.go) and its environment
    clientKind,   \* which DNSClient the beacon holds: "plain", "doh" or "dot"
    baseDelay,    \* Beacon.baseDelay, in ticks
    jitter,       \* Beacon.jitter, in ticks
    generator,    \* the generator's minLength and maxLength, and len(Beacon.domain)
    ctxDone,      \* the context passed to Start is cancelled
    preCancelled, \* it was cancelled before Start was called
    bpc,          \* where Start is
    loopCount,    \* Start's queryCount
    fqdnFresh,    \* fqdn holds a name no query has used yet
    outstanding,  \* Query calls that have started and not returned
    transportCtx, \* the context the transport call of the query in flight watches
    elapsed,      \* ticks since the query in flight started
    queryErr,     \* the error the last Query call returned
    remaining,    \* ticks until time.After(delay) fires
    ret,          \* what Start returned
    issued,       \* how many Query calls Start has made
    generated,    \* how many names GenerateWithDomain has returned
    waits,        \* how many inter-query waits Start has begun
    \* one call of a client's Query (modes package)
    cKind,        \* the client: "plain", "doh" or "dot"
    cpc,          \* "idle" before the call, "done" after it
    cDomain,      \* the domain argument
    cNow,         \* what time.Now() returned for queryTime (0: not read)
    cWire,        \* what the transport call gave back
    qres,         \* the *QueryResult that Query returned
    qerr,         \* the error that Query returned
    \* one call of Beacon.calculateDelay on its own
    draw,         \* the outcome of rand.Int: whether it succeeded, and the number
    delay,        \* what calculateDelay returned: [set, d]
    \* one SubdomainGenerator on its own (NewSubdomainGenerator, Generate, GenerateWithDomain)
    gArgs,        \* the arguments minLength and maxLength of NewSubdomainGenerator
    gen,          \* what NewSubdomainGenerator returned: [err, minLength, maxLength]
    gpc,          \* "new", "ready" or "called"
    gLength,      \* the length randomLength returned in the last call
    gBytes,       \* the bytes rand.Read gave the last call
    gDomain,      \* the domain argument of the last GenerateWithDomain call
    gOut,         \* what the last call returned: [err, s]
    \* one call of PlainDNSClient.QueryWithRetry
    maxRetries,   \* the maxRetries argument
    rDomain,      \* the domain argument
    rCtxDone,     \* the context passed to the call is cancelled
    rpc,          \* where the call is: "top", "query", "backoff" or "returned"
    attempt,      \* the loop variable
    lastErr,      \* lastErr
    rRemaining,   \* ticks until time.After(backoff) fires
    rWaited,      \* ticks spent in the backoff wait under way
    rTries,       \* what each c.Query call returned, in order
    rWaits,       \* the ticks each backoff wait that ran out took, in order
    rRet,         \* what QueryWithRetry returned
    \* the callers of Server.GetStats (cmd/server main and its statistics printer)
    spc,          \* where each caller's GetStats call is: "idle", "lock", "read", "unlock"
    sCount,       \* the queryCount each caller's call has read
    sAtLock,      \* the increments that were complete when the call got the lock
    sRets,        \* what the GetStats calls returned, in order: [by, count, atLock]
    sCalls,       \* how many GetStats calls have begun
    \* cmd/server main after the listeners are started
    sigChan,      \* signals buffered in sigChan (capacity 1)
    sigSent,      \* the operating system has sent the process its signal
    tickC,        \* ticks buffered in ticker.C (capacity 1)
    ticks,        \* how many times the ticker has fired
    errChan,      \* errors buffered in errChan (capacity 2)
    started,      \* the listeners whose Start has not returned
    mpc,          \* where main is: "select", "stats", "done" or "fatal"
    ppc           \* where the statistics printer is: "select", "stats" or "returned"

serverVars == <<srvErr, domain, responseIP, ttl, mu, queryCount>>
handlerVars == <<load, pc, req, query, msg, tmp, currentCount, response, dnsWriter,
                 out, result, calls, passed>>
beaconVars == <<clientKind, baseDelay, jitter, generator, ctxDone, preCancelled, bpc,
                loopCount, fqdnFresh, outstanding, transportCtx, elapsed, queryErr,
                remaining, ret, issued, generated, waits>>
clientVars == <<cKind, cpc, cDomain, cNow, cWire, qres, qerr>>
delayVars == <<draw, delay>>
genVars == <<gArgs, gen, gpc, gLength, gBytes, gDomain, gOut>>
\* the state of the units that are run on their own
retryVars == <<maxRetries, rDomain, rCtxDone, rpc, attempt, lastErr, rRemaining, rWaited,
               rTries, rWaits, rRet>>
statsVars == <<spc, sCount, sAtLock, sRets, sCalls>>
mainVars == <<sigChan, sigSent, tickC, ticks, errChan, started, mpc, ppc>>
moreVars == <<retryVars, statsVars, mainVars>>
unitVars == <<clientVars, delayVars, genVars, moreVars>>
vars == <<serverVars, handlerVars, beaconVars, unitVars>>

Listeners == {"udp", "doh", "dot"}

NoReq == [method |-> "-", ctype |-> "-", readErr |-> FALSE, body |-> <<>>]
NoOut == [status |-> 0, ctype |-> "-", body |-> <<>>]
NoResult == [err |-> "none", rcode |-> "none", answers |-> <<>>]

(***************************************************************************)
(* The responder.                                                          *)
(***************************************************************************)
\* Server.isOurDomain, where the name ends with the characters of the served domain
isOurDomainBySuffix(name) ==
    LET n == Fqdn(name)
    IN  Len(n) >= Len(domain)
        /\ Slice(n, Len(n) - Len(domain) + 1, Len(n) + 1) = domain

\* Server.isOurDomain
isOurDomain(name) ==
    LET n == Fqdn(name)
    IN  n = domain \/ IsSubDomain(domain, n)

\* Server.handleQuestion with the TTL of the A record written as the literal 60
handleQuestionLiteralTtl(m, question) ==
    IF ~isOurDomain(question.Name) THEN m
    ELSE IF question.Qtype = TypeA
    THEN [m EXCEPT !.Answer = Append(@, [Name |-> question.Name, Rrtype |-> TypeA,
                                         Ttl |-> 60, A |-> To4(responseIP)])]
    ELSE IF question.Qtype = TypeNS
    THEN [m EXCEPT !.Answer = Append(@, [Name |-> question.Name, Rrtype |-> TypeNS,
                                         Ttl |-> ttl,
                                         Ns |-> <<"n", "s", "1", ".">> \o domain])]
    ELSE m

\* handleQuestion with an NS record owned by the served domain and not the question name
handleQuestionNsAtApex(m, question) ==
    IF ~isOurDomain(question.Name) THEN m
    ELSE IF question.Qtype = TypeA
    THEN [m EXCEPT !.Answer = Append(@, [Name |-> question.Name, Rrtype |-> TypeA,
                                         Ttl |-> ttl, A |-> To4(responseIP)])]
    ELSE IF question.Qtype = TypeNS
    THEN [m EXCEPT !.Answer = Append(@, [Name |-> domain, Rrtype |-> TypeNS,
                                         Ttl |-> ttl,
                                         Ns |-> <<"n", "s", "1", ".">> \o domain])]
    ELSE m

\* Server.handleQuestion: the reply m with the answer to one question appended
handleQuestion(m, question) ==
    IF ~isOurDomain(question.Name) THEN m
    ELSE IF question.Qtype = TypeA
    THEN [m EXCEPT !.Answer = Append(@, [Name |-> question.Name, Rrtype |-> TypeA,
                                         Ttl |-> ttl, A |-> To4(responseIP)])]
    ELSE IF question.Qtype = TypeNS
    THEN [m EXCEPT !.Answer = Append(@, [Name |-> question.Name, Rrtype |-> TypeNS,
                                         Ttl |-> ttl,
                                         Ns |-> <<"n", "s", "1", ".">> \o domain])]
    ELSE m

RECURSIVE handleQuestions(_, _)
\* ServeDNS's loop over r.Question
handleQuestions(m, qs) ==
    IF qs = <<>> THEN m
    ELSE handleQuestions(handleQuestion(m, qs[1]), Tail(qs))

\* ServeDNS's response code when every reply counts as a success
responseCodeAlwaysSuccess(m) == RcodeSuccess

\* ServeDNS's response code: success with an answer, name error without
responseCode(m) == IF Len(m.Answer) > 0 THEN RcodeSuccess ELSE RcodeNameError

\* ServeDNS after the counter: answer every question, then set the response code
buildReply(m, r) ==
    LET answered == handleQuestions(m, r.Question)
    IN  SetRcode(answered, r, responseCode(answered))

(***************************************************************************)
(* The listeners.  A handler runs ServeDNS in steps, so that the handlers  *)
(* of the three listeners interleave as goroutines do: the lock, the read  *)
(* and the write of s.queryCount++, the unlock, and the rest of ServeDNS.  *)
(***************************************************************************)
Idle(l) == pc[l] = "idle"

\* a client may send when the load allows another request in flight
MaySend(l) ==
    /\ ~srvErr
    /\ Idle(l)
    /\ calls < MaxCalls
    /\ load = "serial" => \A k \in Listeners : Idle(k)

\* the entry of ServeDNS(w, r): msg := new(dns.Msg); msg.SetReply(r)
EnterServeDNS(l, r) ==
    /\ query' = [query EXCEPT ![l] = r]
    /\ msg' = [msg EXCEPT ![l] = SetReply(NewMsg, r)]
    /\ calls' = calls + 1
    /\ pc' = [pc EXCEPT ![l] = "lock"]

\* dns.Server (udp, tcp-tls) reads a packet; the library hands the handler only a
\* message that unpacks and holds exactly one question, and drops the others
AcceptDNS(l) ==
    /\ l \in {"udp", "dot"}
    /\ MaySend(l)
    /\ \E rq \in DNSRequests(load) :
         LET u == Unpack(rq.body)
         IN  /\ req' = [req EXCEPT ![l] = rq]
             /\ IF u.ok /\ Len(u.msg.Question) = 1
                THEN /\ EnterServeDNS(l, u.msg)
                     /\ UNCHANGED out
                ELSE /\ pc' = [pc EXCEPT ![l] = "sent"]
                     /\ out' = [out EXCEPT ![l] = NoOut]
                     /\ UNCHANGED <<query, msg, calls>>
    /\ UNCHANGED <<serverVars, load, tmp, currentCount, response, dnsWriter, result,
                   passed>>
    /\ UNCHANGED <<beaconVars, unitVars>>

\* http.Error that answers 500 whatever status it is given
HttpErrorInternal(l, status) ==
    /\ out' = [out EXCEPT ![l] = [status |-> 500, ctype |-> "text/plain",
                                  body |-> <<>>]]
    /\ pc' = [pc EXCEPT ![l] = "sent"]

\* http.Error that answers 400 whatever status it is given
HttpErrorBadRequest(l, status) ==
    /\ out' = [out EXCEPT ![l] = [status |-> 400, ctype |-> "text/plain",
                                  body |-> <<>>]]
    /\ pc' = [pc EXCEPT ![l] = "sent"]

\* http.Error(w, text, status)
HttpError(l, status) ==
    /\ out' = [out EXCEPT ![l] = [status |-> status, ctype |-> "text/plain",
                                  body |-> <<>>]]
    /\ pc' = [pc EXCEPT ![l] = "sent"]

\* DoHServer.handleDoHRequest up to the call of ServeDNS
AcceptDoH(l) ==
    /\ l = "doh"
    /\ MaySend(l)
    /\ \E rq \in DoHRequests(load) :
         LET u == Unpack(rq.body)
         IN  /\ req' = [req EXCEPT ![l] = rq]
             /\ IF rq.method # "POST"
                THEN HttpError(l, 405) /\ UNCHANGED <<query, msg, calls, response, dnsWriter>>
                ELSE IF rq.ctype # ContentTypeDNS
                THEN HttpError(l, 400) /\ UNCHANGED <<query, msg, calls, response, dnsWriter>>
                ELSE IF rq.readErr
                THEN HttpError(l, 400) /\ UNCHANGED <<query, msg, calls, response, dnsWriter>>
                ELSE IF ~u.ok
                THEN HttpError(l, 400) /\ UNCHANGED <<query, msg, calls, response, dnsWriter>>
                ELSE /\ response' = [response EXCEPT ![l] = SetReply(NewMsg, u.msg)]
                     /\ dnsWriter' = [dnsWriter EXCEPT ![l] = SetReply(NewMsg, u.msg)]
                     /\ EnterServeDNS(l, u.msg)
                     /\ UNCHANGED out
    /\ UNCHANGED <<serverVars, load, tmp, currentCount, result, passed>>
    /\ UNCHANGED <<beaconVars, unitVars>>

\* s.mu.Lock() on a lock that excludes nobody
LockWithoutExclusion(l) ==
    /\ pc[l] = "lock"
    /\ mu' = l
    /\ pc' = [pc EXCEPT ![l] = "load"]
    /\ UNCHANGED <<srvErr, domain, responseIP, ttl, queryCount, load, req, query, msg,
                   tmp, currentCount, response, dnsWriter, out, result, calls, passed>>
    /\ UNCHANGED <<beaconVars, unitVars>>

\* s.mu.Lock()
Lock(l) ==
    /\ pc[l] = "lock"
    /\ mu = "free"
    /\ mu' = l
    /\ pc' = [pc EXCEPT ![l] = "load"]
    /\ UNCHANGED <<srvErr, domain, responseIP, ttl, queryCount, load, req, query, msg,
                   tmp, currentCount, response, dnsWriter, out, result, calls, passed>>
    /\ UNCHANGED <<beaconVars, unitVars>>

\* s.queryCount++, the read
LoadCount(l) ==
    /\ pc[l] = "load"
    /\ tmp' = [tmp EXCEPT ![l] = queryCount]
    /\ pc' = [pc EXCEPT ![l] = "store"]
    /\ UNCHANGED <<serverVars, load, req, query, msg, currentCount, response, dnsWriter,
                   out, result, calls, passed>>
    /\ UNCHANGED <<beaconVars, unitVars>>

\* s.queryCount++, the write, and currentCount := s.queryCount
StoreCount(l) ==
    /\ pc[l] = "store"
    /\ queryCount' = tmp[l] + 1
    /\ currentCount' = [currentCount EXCEPT ![l] = tmp[l] + 1]
    /\ passed' = passed + 1
    /\ pc' = [pc EXCEPT ![l] = "unlock"]
    /\ UNCHANGED <<srvErr, domain, responseIP, ttl, mu, load, req, query, msg, tmp,
                   response, dnsWriter, out, result, calls>>
    /\ UNCHANGED <<beaconVars, unitVars>>

\* s.mu.Unlock() that leaves the lock held
UnlockLeavesHeld(l) ==
    /\ pc[l] = "unlock"
    /\ pc' = [pc EXCEPT ![l] = "serve"]
    /\ UNCHANGED <<serverVars, load, req, query, msg, tmp, currentCount, response,
                   dnsWriter, out, result, calls, passed>>
    /\ UNCHANGED <<beaconVars, unitVars>>

\* s.mu.Unlock()
Unlock(l) ==
    /\ pc[l] = "unlock"
    /\ mu' = "free"
    /\ pc' = [pc EXCEPT ![l] = "serve"]
    /\ UNCHANGED <<srvErr, domain, responseIP, ttl, queryCount, load, req, query, msg,
                   tmp, currentCount, response, dnsWriter, out, result, calls, passed>>
    /\ UNCHANGED <<beaconVars, unitVars>>

\* w.WriteMsg(m): the DoH writer keeps the message in its own field, the library's
\* writers pack it and send it (a message that does not pack is logged and not sent)
WriteMsg(l, m) ==
    IF l = "doh"
    THEN /\ dnsWriter' = [dnsWriter EXCEPT ![l] = m]
         /\ pc' = [pc EXCEPT ![l] = "pack"]
         /\ UNCHANGED out
    ELSE /\ out' = [out EXCEPT ![l] =
                      IF Pack(m).ok
                      THEN [status |-> 0, ctype |-> "-", body |-> Pack(m).bytes]
                      ELSE NoOut]
         /\ pc' = [pc EXCEPT ![l] = "sent"]
         /\ UNCHANGED dnsWriter

\* the rest of ServeDNS: the questions, the response code, the write
Respond(l) ==
    /\ pc[l] = "serve"
    /\ msg' = [msg EXCEPT ![l] = buildReply(msg[l], query[l])]
    /\ WriteMsg(l, buildReply(msg[l], query[l]))
    /\ UNCHANGED <<serverVars, load, req, query, tmp, currentCount, response, result,
                   calls, passed>>
    /\ UNCHANGED <<beaconVars, unitVars>>

\* handleDoHRequest after ServeDNS: response.Pack() and the HTTP response
ReplyDoH(l) ==
    /\ pc[l] = "pack"
    /\ IF Pack(response[l]).ok
       THEN /\ out' = [out EXCEPT ![l] = [status |-> 200, ctype |-> ContentTypeDNS,
                                          body |-> Pack(response[l]).bytes]]
            /\ pc' = [pc EXCEPT ![l] = "sent"]
       ELSE HttpError(l, 500)
    /\ UNCHANGED <<serverVars, load, req, query, msg, tmp, currentCount, response,
                   dnsWriter, result, calls, passed>>
    /\ UNCHANGED <<beaconVars, unitVars>>

\* a loop over the answer section that stops after the first record
ExtractFirstAnswer(rrs) ==
    IF rrs # <<>> /\ rrs[1].Rrtype = TypeA THEN <<IPString(rrs[1].A)>> ELSE <<>>

\* the A-record addresses of a response, as the clients collect them
RECURSIVE ExtractAnswers(_)
ExtractAnswers(rrs) ==
    IF rrs = <<>> THEN <<>>
    ELSE (IF rrs[1].Rrtype = TypeA THEN <<IPString(rrs[1].A)>> ELSE <<>>)
         \o ExtractAnswers(Tail(rrs))

\* the client's end of the exchange: unpack what came back and collect the answers
Deliver(l) ==
    /\ pc[l] = "sent"
    /\ LET u == Unpack(out[l].body)
       IN  result' = [result EXCEPT ![l] =
             IF l = "doh" /\ out[l].status # 200
             THEN [err |-> "http", rcode |-> "none", answers |-> <<>>]
             ELSE IF l # "doh" /\ out[l] = NoOut
             THEN [err |-> "timeout", rcode |-> "none", answers |-> <<>>]
             ELSE IF ~u.ok
             THEN [err |-> "unpack", rcode |-> "none", answers |-> <<>>]
             ELSE [err |-> "nil", rcode |-> u.msg.Rcode,
                   answers |-> ExtractAnswers(u.msg.Answer)]]
    /\ pc' = [pc EXCEPT ![l] = "got"]
    /\ UNCHANGED <<serverVars, load, req, query, msg, tmp, currentCount, response,
                   dnsWriter, out, calls, passed>>
    /\ UNCHANGED <<beaconVars, unitVars>>

\* the handler and the client's call return: their locals are gone
Finish(l) ==
    /\ pc[l] = "got"
    /\ pc' = [pc EXCEPT ![l] = "idle"]
    /\ req' = [req EXCEPT ![l] = NoReq]
    /\ query' = [query EXCEPT ![l] = NoMsg]
    /\ msg' = [msg EXCEPT ![l] = NoMsg]
    /\ tmp' = [tmp EXCEPT ![l] = 0]
    /\ currentCount' = [currentCount EXCEPT ![l] = 0]
    /\ response' = [response EXCEPT ![l] = NoMsg]
    /\ dnsWriter' = [dnsWriter EXCEPT ![l] = NoMsg]
    /\ out' = [out EXCEPT ![l] = NoOut]
    /\ result' = [result EXCEPT ![l] = NoResult]
    /\ UNCHANGED <<serverVars, load, calls, passed>>
    /\ UNCHANGED <<beaconVars, unitVars>>

\* NewServer: the responder of a configuration, or an error for a text that is no address
NewServer(d, ip, t) ==
    /\ srvErr = (ParseIP(ip).n = 0)
    /\ domain = Fqdn(d)
    /\ responseIP = ParseIP(ip)
    /\ ttl = t
    /\ mu = "free"
    /\ queryCount = 0

InitHandlers ==
    /\ pc = [l \in Listeners |-> "idle"]
    /\ req = [l \in Listeners |-> NoReq]
    /\ query = [l \in Listeners |-> NoMsg]
    /\ msg = [l \in Listeners |-> NoMsg]
    /\ tmp = [l \in Listeners |-> 0]
    /\ currentCount = [l \in Listeners |-> 0]
    /\ response = [l \in Listeners |-> NoMsg]
    /\ dnsWriter = [l \in Listeners |-> NoMsg]
    /\ out = [l \in Listeners |-> NoOut]
    /\ result = [l \in Listeners |-> NoResult]
    /\ calls = 0
    /\ passed = 0

\* a nil *QueryResult
NilQueryResult ==
    [isNil |-> TRUE, Domain |-> <<>>, Response |-> NoMsg, RTT |-> 0, Server |-> "",
     Error |-> "nil", Answers |-> [isNil |-> TRUE, list |-> <<>>], QueryTime |-> 0]

\* nothing came from a transport
NoWire ==
    [response |-> NoMsg, rtt |-> 0, err |-> "nil", status |-> 0, ctype |-> "-",
     readErr |-> FALSE, body |-> <<>>]

\* no client call in this process
NoClient ==
    /\ cKind = "none"
    /\ cpc = "none"
    /\ cDomain = <<>>
    /\ cNow = 0
    /\ cWire = NoWire
    /\ qres = NilQueryResult
    /\ qerr = "nil"

\* calculateDelay has not been called
NoDelay ==
    /\ draw = [ok |-> FALSE, n |-> 0]
    /\ delay = [set |-> FALSE, d |-> 0]

\* no generator on its own in this process
NoGenerator ==
    /\ gArgs = [minLength |-> 0, maxLength |-> 0]
    /\ gen = [err |-> TRUE, minLength |-> 0, maxLength |-> 0]
    /\ gpc = "none"
    /\ gLength = 0
    /\ gBytes = <<>>
    /\ gDomain = <<>>
    /\ gOut = [err |-> FALSE, s |-> <<>>]

\* a nil error of a Query call, and the error value [text, wraps]
NilErr == [text |-> "nil", wraps |-> "nil"]

\* what QueryWithRetry has returned before it returns
NoReturn == [result |-> NilQueryResult, err |-> "none", attempts |-> 0, wraps |-> NilErr]

\* no QueryWithRetry call in this process
NoRetry ==
    /\ maxRetries = 0
    /\ rDomain = <<>>
    /\ rCtxDone = FALSE
    /\ rpc = "none"
    /\ attempt = 0
    /\ lastErr = NilErr
    /\ rRemaining = 0
    /\ rWaited = 0
    /\ rTries = <<>>
    /\ rWaits = <<>>
    /\ rRet = NoReturn

\* the goroutines of cmd/server that call GetStats
StatsCallers == {"printer", "main"}

\* nobody has called GetStats
InitStatsCallers ==
    /\ spc = [c \in StatsCallers |-> "idle"]
    /\ sCount = [c \in StatsCallers |-> 0]
    /\ sAtLock = [c \in StatsCallers |-> 0]
    /\ sRets = <<>>
    /\ sCalls = 0

\* the process is not cmd/server main at its select statements
NoMain ==
    /\ sigChan = 0
    /\ sigSent = FALSE
    /\ tickC = 0
    /\ ticks = 0
    /\ errChan = 0
    /\ started = {}
    /\ mpc = "none"
    /\ ppc = "none"

NoMore == NoRetry /\ InitStatsCallers /\ NoMain

NoUnits == NoClient /\ NoDelay /\ NoGenerator /\ NoMore

\* the server process runs no beacon
NoBeacon ==
    /\ clientKind = "plain"
    /\ baseDelay = 0
    /\ jitter = 0
    /\ generator = [min |-> 1, max |-> 1, dom |-> 0]
    /\ ctxDone = FALSE
    /\ preCancelled = FALSE
    /\ bpc = "none"
    /\ loopCount = 0
    /\ fqdnFresh = FALSE
    /\ outstanding = 0
    /\ transportCtx = "none"
    /\ elapsed = 0
    /\ queryErr = "none"
    /\ remaining = 0
    /\ ret = "none"
    /\ issued = 0
    /\ generated = 0
    /\ waits = 0

\* cmd/server main: one responder, shared by the listeners
InitServe ==
    /\ \E d \in CfgDomains, ip \in CfgIPs, t \in CfgTTLs : NewServer(d, ip, t)
    /\ load = "serial"
    /\ InitHandlers
    /\ NoBeacon
    /\ NoUnits

InitConc ==
    /\ \E d \in CfgDomains, ip \in CfgIPs, t \in CfgTTLs : NewServer(d, ip, t)
    /\ load = "parallel"
    /\ InitHandlers
    /\ NoBeacon
    /\ NoUnits

NextServer ==
    \E l \in Listeners :
        \/ AcceptDNS(l)
        \/ AcceptDoH(l)
        \/ Lock(l)
        \/ LoadCount(l)
        \/ StoreCount(l)
        \/ Unlock(l)
        \/ Respond(l)
        \/ ReplyDoH(l)
        \/ Deliver(l)
        \/ Finish(l)

\* clients send one request at a time, any query
SpecServe == InitServe /\ [][NextServer]_vars

\* clients of all listeners send at once
SpecConc == InitConc /\ [][NextServer]_vars

(***************************************************************************)
(* Properties of the responder and its listeners.                          *)
(***************************************************************************)
\* the handler of l has run ServeDNS to its end for the request at hand
Served(l) == pc[l] \in {"pack", "sent", "got"} /\ msg[l] # NoMsg

\* the listener of l has sent its response for a request that reached ServeDNS
Answered(l) == pc[l] \in {"sent", "got"} /\ msg[l] # NoMsg

RECURSIVE LabelList(_)
\* the labels of a fully qualified name, without the dots
LabelList(s) ==
    IF s = <<>> \/ s = <<Dot>> THEN <<>>
    ELSE LET d == CHOOSE i \in 1..Len(s) : s[i] = Dot /\ \A j \in 1..(i - 1) : s[j] # Dot
         IN  <<SubSeq(s, 1, d - 1)>> \o LabelList(SubSeq(s, d + 1, Len(s)))

\* name is the domain d or lies below it on a label boundary (names compare without case)
UnderDomain(name, d) ==
    LET ln == LabelList(ToLower(name))
        ld == LabelList(ToLower(d))
    IN  /\ Len(ld) <= Len(ln)
        /\ SubSeq(ln, Len(ln) - Len(ld) + 1, Len(ln)) = ld

\* the positions of the records of type t and owner name n in a record list
RecordsOf(rrs, t, n) == { i \in 1..Len(rrs) : rrs[i].Rrtype = t /\ rrs[i].Name = n }

\* the positions of the questions of type t and name n in a question list
QuestionsOf(qs, t, n) == { i \in 1..Len(qs) : qs[i].Qtype = t /\ qs[i].Name = n }

\* C1: for every query a listener accepts, the response it sends back carries exactly
\* the answer records and the response code of the message ServeDNS built, and the
\* answer list the client extracts is the one of that message.
C1_TransportCarriesReply ==
    \A l \in Listeners :
        Answered(l) =>
            /\ Unpack(out[l].body).ok
            /\ Unpack(out[l].body).msg.Answer = msg[l].Answer
            /\ Unpack(out[l].body).msg.Rcode = msg[l].Rcode
            /\ pc[l] = "got" => result[l].answers = ExtractAnswers(msg[l].Answer)

\* C2: the response code ServeDNS sets is success exactly when at least one answer was
\* appended and name-error otherwise; a query for an unsupported type under the served
\* domain gets no answer and name-error.
C2_RcodeIffAnswered ==
    \A l \in Listeners :
        Served(l) =>
            /\ msg[l].Rcode = RcodeSuccess <=> Len(msg[l].Answer) > 0
            /\ msg[l].Rcode = RcodeNameError <=> Len(msg[l].Answer) = 0
            /\ (\A i \in 1..Len(query[l].Question) :
                    query[l].Question[i].Qtype \notin {TypeA, TypeNS})
               => msg[l].Answer = <<>> /\ msg[l].Rcode = RcodeNameError

\* C2 witness: an AAAA query for the served domain itself was answered with name-error
C2_Witness ==
    \E l \in Listeners :
        /\ Served(l)
        /\ Len(query[l].Question) = 1
        /\ query[l].Question[1].Qtype = TypeAAAA
        /\ query[l].Question[1].Name = domain
        /\ msg[l].Rcode = RcodeNameError

\* C3: every type-A question for the served domain or a name below it gets exactly one
\* A record with the question's name, the configured IPv4 address and the configured
\* TTL, and the response code is success.
C3_ARecordPerQuestion ==
    \A l \in Listeners :
        Served(l) =>
            \A i \in 1..Len(query[l].Question) :
                LET q == query[l].Question[i]
                IN  (q.Qtype = TypeA /\ UnderDomain(q.Name, domain)) =>
                      /\ Cardinality(RecordsOf(msg[l].Answer, TypeA, q.Name))
                           = Cardinality(QuestionsOf(query[l].Question, TypeA, q.Name))
                      /\ \A j \in RecordsOf(msg[l].Answer, TypeA, q.Name) :
                            /\ msg[l].Answer[j].Ttl = ttl
                            /\ responseIP.v4 =>
                                 /\ msg[l].Answer[j].A.n = 4
                                 /\ msg[l].Answer[j].A.text = responseIP.text
                      /\ msg[l].Rcode = RcodeSuccess

\* C3 witness: an A query for a name below the served two-label domain was answered,
\* with a TTL other than 60
C3_Witness ==
    \E l \in Listeners :
        /\ Served(l)
        /\ Len(query[l].Question) = 1
        /\ query[l].Question[1].Qtype = TypeA
        /\ query[l].Question[1].Name = <<"a", ".", "b", ".", "a", ".">>
        /\ domain = <<"b", ".", "a", ".">>
        /\ ttl = 300
        /\ responseIP.v4
        /\ Len(msg[l].Answer) = 1

\* C4: a record is appended only for a question whose name is the served domain or
\* lies below it on a label boundary; a query of other names only gets no answer and
\* name-error, and is answered all the same.
C4_OnlyOurDomain ==
    \A l \in Listeners :
        Served(l) =>
            /\ \A j \in 1..Len(msg[l].Answer) :
                  /\ UnderDomain(msg[l].Answer[j].Name, domain)
                  /\ \E i \in 1..Len(query[l].Question) :
                        query[l].Question[i].Name = msg[l].Answer[j].Name
            /\ (\A i \in 1..Len(query[l].Question) :
                    ~UnderDomain(query[l].Question[i].Name, domain))
               => /\ msg[l].Answer = <<>>
                  /\ msg[l].Rcode = RcodeNameError
                  /\ Answered(l) /\ l # "doh" => out[l] # NoOut
                  /\ Answered(l) /\ l = "doh" => out[l].status = 200

\* C4 witness: a name that ends with the characters of the served domain, without a
\* label boundary, was served and got no answer
C4_Witness ==
    \E l \in Listeners :
        /\ Answered(l)
        /\ domain = <<"b", ".", "a", ".">>
        /\ Len(query[l].Question) = 1
        /\ query[l].Question[1].Name = <<"b", "b", ".", "a", ".">>
        /\ query[l].Question[1].Qtype = TypeA
        /\ msg[l].Answer = <<>>

\* the handlers that have entered ServeDNS and not yet written the counter
BeforeIncrement == { l \in Listeners : pc[l] \in {"lock", "load", "store"} }

\* C5: the counter equals the number of ServeDNS calls that have passed the increment,
\* under every interleaving of the handlers: every call adds one, none is lost or doubled.
C5_CounterCountsCalls ==
    /\ queryCount = passed
    /\ passed = calls - Cardinality(BeforeIncrement)
    /\ \A l \in Listeners : pc[l] \in {"unlock", "serve"} => currentCount[l] <= queryCount

\* C5 witness: two calls have incremented, and a third handler waits for the lock that
\* another one holds
C5_Witness ==
    /\ queryCount >= 2
    /\ \E l \in Listeners : pc[l] = "lock" /\ mu \notin {"free", l}

(***************************************************************************)
(* The beacon.  Time is counted in ticks of half a second; a step of the   *)
(* beacon that can be taken is taken before time moves on.                 *)
(***************************************************************************)
\* ticks per second
Second == 2
\* the timeout the agent gives every client, in seconds
TimeoutSeconds == 10
\* most iterations of the beacon loop in one run
MaxIterations == 3
\* the longest full name GenerateWithDomain returns
MaxFqdnLength == 253

Timeout == TimeoutSeconds * Second

ClientKinds == {"plain", "doh", "dot"}
BaseDelays == {1, Second, 2 * Second}
Jitters == {0, 1, Second}
\* the agent's label lengths with its 19-character domain and with a 200-character one
Generators == { [min |-> 45, max |-> 60, dom |-> 19], [min |-> 45, max |-> 60, dom |-> 200] }

\* PlainDNSClientAdapter.Query: c.client.Exchange(msg, c.resolver) is given no context
PlainQueryContext == "background"

\* DoTClient.Query: c.client.Exchange(msg, c.serverAddr) is given no context
DoTQueryContext == "background"

\* DoHClient.Query: http.NewRequestWithContext(ctx, ...) hands ctx to the transport
DoHQueryContext == "ctx"

\* the context the transport call of the configured client watches
QueryContext ==
    IF clientKind = "plain" THEN PlainQueryContext
    ELSE IF clientKind = "dot" THEN DoTQueryContext
    ELSE DoHQueryContext

\* the transport call of the query in flight sees the cancellation
QueryAborts == transportCtx = "ctx" /\ ctxDone

\* the select at the end of an iteration when it only waits for the timer
WaitReadyTimerOnly == remaining = 0

\* the select at the end of an iteration can proceed: the timer fired or ctx is done
WaitReady == remaining = 0 \/ ctxDone

\* calculateDelay without the one-second floor
calculateDelayNoFloor(r) ==
    IF jitter = 0 \/ ~r.ok THEN baseDelay ELSE baseDelay + (r.n - jitter)

\* calculateDelay with the one-second floor on every path
calculateDelayFloorAlways(r) ==
    LET finalDelay == IF jitter = 0 \/ ~r.ok THEN baseDelay
                      ELSE baseDelay + (r.n - jitter)
    IN  IF finalDelay < Second THEN Second ELSE finalDelay

\* Beacon.calculateDelay for the outcome r of rand.Int(rand.Reader, 2*jitter)
calculateDelay(r) ==
    IF jitter = 0 THEN baseDelay
    ELSE IF ~r.ok THEN baseDelay
    ELSE LET finalDelay == baseDelay + (r.n - jitter)
         IN  IF finalDelay < Second THEN Second ELSE finalDelay

\* what rand.Int(rand.Reader, 2*jitter) can give: a number below 2*jitter, or an error
\* (nothing is drawn when jitter is 0)
JitterDraws ==
    IF jitter = 0 THEN { [ok |-> FALSE, n |-> 0] }
    ELSE { [ok |-> TRUE, n |-> k] : k \in 0..(2 * jitter - 1) }
         \cup { [ok |-> FALSE, n |-> 0] }

\* SubdomainGenerator.GenerateWithDomain for a label of length n: whether it returns a name
GenerateWithDomainOk(n) == n + 1 + generator.dom <= MaxFqdnLength

\* the top of the loop without the check of ctx.Done()
CheckCancelledNever ==
    /\ bpc = "check"
    /\ loopCount < MaxIterations
    /\ loopCount' = loopCount + 1
    /\ bpc' = "generate"
    /\ UNCHANGED <<serverVars, handlerVars, unitVars>>
    /\ UNCHANGED <<clientKind, baseDelay, jitter, generator, ctxDone, preCancelled,
                   fqdnFresh, outstanding, transportCtx, elapsed, queryErr, remaining,
                   ret, issued, generated, waits>>

\* the top of the loop: return ctx.Err() when ctx is done, else queryCount++
CheckCancelled ==
    /\ bpc = "check"
    /\ IF ctxDone
       THEN /\ bpc' = "returned"
            /\ ret' = "canceled"
            /\ UNCHANGED loopCount
       ELSE /\ loopCount < MaxIterations
            /\ loopCount' = loopCount + 1
            /\ bpc' = "generate"
            /\ UNCHANGED ret
    /\ UNCHANGED <<serverVars, handlerVars, unitVars>>
    /\ UNCHANGED <<clientKind, baseDelay, jitter, generator, ctxDone, preCancelled,
                   fqdnFresh, outstanding, transportCtx, elapsed, queryErr, remaining,
                   issued, generated, waits>>

\* fqdn, err := b.generator.GenerateWithDomain(b.domain); continue on an error
Generate ==
    /\ bpc = "generate"
    /\ \E n \in generator.min..generator.max :
         IF GenerateWithDomainOk(n)
         THEN /\ fqdnFresh' = TRUE
              /\ generated' = generated + 1
              /\ bpc' = "send"
         ELSE /\ bpc' = "check"
              /\ UNCHANGED <<fqdnFresh, generated>>
    /\ UNCHANGED <<serverVars, handlerVars, unitVars>>
    /\ UNCHANGED <<clientKind, baseDelay, jitter, generator, ctxDone, preCancelled,
                   loopCount, outstanding, transportCtx, elapsed, queryErr, remaining,
                   ret, issued, waits>>

\* the query started in a goroutine of its own, the loop going on at once
StartQueryNoWait ==
    /\ bpc = "send"
    /\ outstanding' = outstanding + 1
    /\ issued' = issued + 1
    /\ fqdnFresh' = FALSE
    /\ transportCtx' = QueryContext
    /\ elapsed' = 0
    /\ bpc' = "calc"
    /\ UNCHANGED <<serverVars, handlerVars, unitVars>>
    /\ UNCHANGED <<clientKind, baseDelay, jitter, generator, ctxDone, preCancelled,
                   loopCount, queryErr, remaining, ret, generated, waits>>

\* result, err := b.client.Query(ctx, fqdn): the call starts
StartQuery ==
    /\ bpc = "send"
    /\ outstanding' = outstanding + 1
    /\ issued' = issued + 1
    /\ fqdnFresh' = FALSE
    /\ transportCtx' = QueryContext
    /\ elapsed' = 0
    /\ bpc' = "query"
    /\ UNCHANGED <<serverVars, handlerVars, unitVars>>
    /\ UNCHANGED <<clientKind, baseDelay, jitter, generator, ctxDone, preCancelled,
                   loopCount, queryErr, remaining, ret, generated, waits>>

\* how the Query call in flight can end now
QueryOutcomes ==
    (IF elapsed < Timeout THEN {"nil", "error"} ELSE {"timeout"})
    \cup (IF QueryAborts THEN {"canceled"} ELSE {})

\* the Query call returns, and a failure ends Start with the error
QueryReturnStopOnError ==
    /\ bpc = "query"
    /\ \E e \in QueryOutcomes :
         /\ queryErr' = e
         /\ IF e = "nil"
            THEN bpc' = "calc" /\ UNCHANGED ret
            ELSE bpc' = "returned" /\ ret' = e
    /\ outstanding' = outstanding - 1
    /\ transportCtx' = "none"
    /\ elapsed' = 0
    /\ UNCHANGED <<serverVars, handlerVars, unitVars>>
    /\ UNCHANGED <<clientKind, baseDelay, jitter, generator, ctxDone, preCancelled,
                   loopCount, fqdnFresh, remaining, issued, generated, waits>>

\* the Query call returns; its outcome is logged, error or not
QueryReturn ==
    /\ bpc = "query"
    /\ \E e \in QueryOutcomes : queryErr' = e
    /\ outstanding' = outstanding - 1
    /\ transportCtx' = "none"
    /\ elapsed' = 0
    /\ bpc' = "calc"
    /\ UNCHANGED <<serverVars, handlerVars, unitVars>>
    /\ UNCHANGED <<clientKind, baseDelay, jitter, generator, ctxDone, preCancelled,
                   loopCount, fqdnFresh, remaining, ret, issued, generated, waits>>

\* delay := b.calculateDelay(), and the timer of time.After(delay) starts
CalcDelay ==
    /\ bpc = "calc"
    /\ \E r \in JitterDraws : remaining' = calculateDelay(r)
    /\ waits' = waits + 1
    /\ bpc' = "wait"
    /\ UNCHANGED <<serverVars, handlerVars, unitVars>>
    /\ UNCHANGED <<clientKind, baseDelay, jitter, generator, ctxDone, preCancelled,
                   loopCount, fqdnFresh, outstanding, transportCtx, elapsed, queryErr,
                   ret, issued, generated>>

\* the select at the end of the iteration: the timer, or ctx.Done() and return ctx.Err()
WaitDelay ==
    /\ bpc = "wait"
    /\ WaitReady
    /\ \/ /\ remaining = 0
          /\ bpc' = "check"
          /\ UNCHANGED ret
       \/ /\ ctxDone
          /\ bpc' = "returned"
          /\ ret' = "canceled"
    /\ UNCHANGED <<serverVars, handlerVars, unitVars>>
    /\ UNCHANGED <<clientKind, baseDelay, jitter, generator, ctxDone, preCancelled,
                   loopCount, fqdnFresh, outstanding, transportCtx, elapsed, queryErr,
                   remaining, issued, generated, waits>>

\* the signal goroutine of the agent calls cancel()
Cancel ==
    /\ bpc \in {"check", "generate", "send", "query", "calc", "wait"}
    /\ ~ctxDone
    /\ ctxDone' = TRUE
    /\ UNCHANGED <<serverVars, handlerVars, unitVars>>
    /\ UNCHANGED <<clientKind, baseDelay, jitter, generator, preCancelled, bpc,
                   loopCount, fqdnFresh, outstanding, transportCtx, elapsed, queryErr,
                   remaining, ret, issued, generated, waits>>

\* half a second passes: only while Start is blocked in the Query call or in the wait
Tick ==
    /\ \/ /\ bpc = "query"
          /\ elapsed < Timeout
          /\ ~QueryAborts
          /\ elapsed' = elapsed + 1
          /\ UNCHANGED remaining
       \/ /\ bpc = "wait"
          /\ ~WaitReady
          /\ remaining' = remaining - 1
          /\ UNCHANGED elapsed
    /\ UNCHANGED <<serverVars, handlerVars, unitVars>>
    /\ UNCHANGED <<clientKind, baseDelay, jitter, generator, ctxDone, preCancelled, bpc,
                   loopCount, fqdnFresh, outstanding, transportCtx, queryErr, ret,
                   issued, generated, waits>>

\* the beacon process runs no responder
NoServer ==
    /\ srvErr = TRUE
    /\ domain = <<Dot>>
    /\ responseIP = NilIP
    /\ ttl = 0
    /\ mu = "free"
    /\ queryCount = 0
    /\ load = "serial"
    /\ InitHandlers

\* cmd/agent main: NewBeacon, a context that may already be cancelled, beacon.Start(ctx)
InitBeacon ==
    /\ clientKind \in ClientKinds
    /\ baseDelay \in BaseDelays
    /\ jitter \in Jitters
    /\ generator \in Generators
    /\ ctxDone \in BOOLEAN
    /\ preCancelled = ctxDone
    /\ bpc = "check"
    /\ loopCount = 0
    /\ fqdnFresh = FALSE
    /\ outstanding = 0
    /\ transportCtx = "none"
    /\ elapsed = 0
    /\ queryErr = "none"
    /\ remaining = 0
    /\ ret = "none"
    /\ issued = 0
    /\ generated = 0
    /\ waits = 0
    /\ NoServer
    /\ NoUnits

NextBeacon ==
    \/ CheckCancelled
    \/ Generate
    \/ StartQuery
    \/ QueryReturn
    \/ CalcDelay
    \/ WaitDelay
    \/ Cancel
    \/ Tick

SpecBeacon == InitBeacon /\ [][NextBeacon]_vars

(***************************************************************************)
(* Properties of the beacon.                                               *)
(***************************************************************************)
\* C6: once the context is cancelled while a query is in flight, the transport call of
\* the configured client watches that context, and no time passes before Query returns.
C6_CancelReachesTransport ==
    [][(bpc = "query" /\ ctxDone) =>
          /\ transportCtx = "ctx"
          /\ bpc' = "query" => elapsed' = elapsed]_vars

\* C7: with a context cancelled before Start, Start makes no query, generates no name,
\* waits no delay, and what it returns is the cancellation error.
C7_PreCancelledDoesNothing ==
    preCancelled =>
        /\ issued = 0
        /\ generated = 0
        /\ waits = 0
        /\ loopCount = 0
        /\ outstanding = 0
        /\ bpc \in {"check", "returned"}
        /\ bpc = "returned" => ret = "canceled"

\* C7 witness: Start has returned the cancellation error for a pre-cancelled context
C7_Witness == preCancelled /\ bpc = "returned" /\ ret = "canceled"

\* C8: when the context is cancelled while the beacon waits and the delay has not run
\* out, the next thing that happens is Start returning the cancellation error: no more
\* of the delay elapses and no query is made.
C8_CancelEndsWait ==
    [][(bpc = "wait" /\ ctxDone /\ remaining > 0) =>
          /\ bpc' = "returned"
          /\ ret' = "canceled"
          /\ remaining' = remaining
          /\ issued' = issued]_vars

\* C8 witness: Start returned from the wait with part of the delay still to run
C8_Witness ==
    /\ ~preCancelled
    /\ bpc = "returned"
    /\ ret = "canceled"
    /\ remaining > 0
    /\ waits > 0

\* C9: Start returns only with the context cancelled and the cancellation error; when a
\* Query call returns, with an error or not, the loop goes on to the delay without
\* another query, and every query that starts uses a name generated for it.
C9_FailedQueryGoesOn ==
    [][/\ bpc' = "returned" => ctxDone' /\ ret' = "canceled"
       /\ (bpc = "query" /\ bpc' # "query") =>
             /\ bpc' = "calc"
             /\ issued' = issued
             /\ generated' = generated
       /\ (bpc = "calc" /\ bpc' # "calc") => bpc' = "wait" /\ waits' = waits + 1
       /\ (bpc # "query" /\ bpc' = "query") =>
             /\ fqdnFresh /\ ~fqdnFresh'
             /\ issued' = issued + 1]_vars

\* C9 witness: after a query that failed, with the context not cancelled, the beacon has
\* waited and has another query in flight
C9_Witness ==
    /\ ~ctxDone
    /\ queryErr \in {"error", "timeout"}
    /\ bpc = "query"
    /\ issued >= 2
    /\ waits >= 1

\* C10: at most one Query call is outstanding, and one is outstanding exactly while
\* Start is blocked in it.
C10_OneOutstandingQuery ==
    /\ outstanding <= 1
    /\ outstanding = 1 <=> bpc = "query"

\* C10 witness: a second query is in flight after the first has returned
C10_Witness == issued >= 2 /\ outstanding = 1 /\ bpc = "query"

(***************************************************************************)
(* The clients (modes package): one call of Query, with everything the     *)
(* transport can give back.                                                *)
(***************************************************************************)
\* most records in the answer section of a response
MaxAnswers == 2

\* the domain argument: a name, the same fully qualified, and one with an empty label
ClientDomains == { <<"b", ".", "a">>, <<"b", ".", "a", ".">>, <<"b", ".", ".", "a">> }

\* c.resolver, c.serverAddr and c.serverURL as the agent configures them
PlainResolver == "127.0.0.1:15353"
DoTServerAddr == "127.0.0.1:8853"
DoHServerURL == "https://127.0.0.1:8443/dns-query"

\* what time.Now() can return, and the round-trip times of an exchange
ClockReadings == {3, 4}
RTTs == {1, 2}

\* the library packs a name only when no label of it is empty
PackableName(name) ==
    /\ name # <<>>
    /\ name = <<Dot>> \/ name[1] # Dot
    /\ \A i \in 1..(Len(name) - 1) : ~(name[i] = Dot /\ name[i + 1] = Dot)

\* msg.SetQuestion(dns.Fqdn(domain), dns.TypeA)
SetQuestion(qname) ==
    [Id |-> 7, Response |-> FALSE, Rcode |-> RcodeSuccess,
     Question |-> <<[Name |-> Fqdn(qname), Qtype |-> TypeA]>>, Answer |-> <<>>]

\* msg.Pack() of the query succeeds
QueryPacks(qname) == PackableName(Fqdn(qname))

\* the records a response can hold: two A records, an NS record, an A record without address
AnswerPool ==
    { [Name |-> <<"b", ".", "a", ".">>, Rrtype |-> TypeA, Ttl |-> 60,
       A |-> [n |-> 4, v4 |-> TRUE, text |-> "127.0.0.1"]],
      [Name |-> <<"b", ".", "a", ".">>, Rrtype |-> TypeA, Ttl |-> 60,
       A |-> [n |-> 4, v4 |-> TRUE, text |-> "10.0.0.2"]],
      [Name |-> <<"b", ".", "a", ".">>, Rrtype |-> TypeNS, Ttl |-> 60,
       Ns |-> <<"n", "s", "1", ".", "b", ".", "a", ".">>],
      [Name |-> <<"b", ".", "a", ".">>, Rrtype |-> TypeA, Ttl |-> 60, A |-> NilIP] }

\* the responses a server can send to the query for a domain
WireResponses(qname) ==
    { [SetReply(NewMsg, SetQuestion(qname)) EXCEPT !.Rcode = rc, !.Answer = rrs] :
        rc \in {RcodeSuccess, RcodeNameError},
        rrs \in UNION { ListsOf(AnswerPool, n) : n \in 0..MaxAnswers } }

\* what a transport gives back: a record of the shape of NoWire
Wire(r, rtt, err) ==
    [response |-> r, rtt |-> rtt, err |-> err, status |-> 0, ctype |-> "-",
     readErr |-> FALSE, body |-> <<>>]

\* dns.Client.Exchange(msg, addr): (r, rtt, err).  A query that does not pack, a failed
\* dial or write give (nil, 0, err); a failed read gives (nil, rtt, err); a reply that
\* does not unpack gives the message allocated for it and the error; else the reply
Exchange(qname) ==
    IF ~QueryPacks(qname) THEN { Wire(NoMsg, 0, "pack") }
    ELSE { Wire(NoMsg, 0, "dial") }
         \cup { Wire(NoMsg, t, "timeout") : t \in RTTs }
         \cup { Wire(NewMsg, t, "unpack") : t \in RTTs }
         \cup { Wire(Unpack(Pack(r).bytes).msg, t, "nil") :
                  r \in WireResponses(qname), t \in RTTs }

\* c.httpClient.Do(req): an error, or a response with a status, a content type and a
\* body that may fail to be read
HttpDo(qname) ==
    { Wire(NoMsg, 0, "dial") }
    \cup { [response |-> NoMsg, rtt |-> t, err |-> "nil", status |-> st, ctype |-> ct,
            readErr |-> re, body |-> b] :
             t \in RTTs, st \in {200, 404, 500}, ct \in {ContentTypeDNS, "text/plain"},
             re \in BOOLEAN,
             b \in MalformedBodies
                   \cup { Pack(r).bytes : r \in WireResponses(qname) } }

\* make([]string, 0) and the appends of the A records' addresses
Answers(list) == [isNil |-> FALSE, list |-> list]

\* a QueryResult literal that names no Answers and no Server
FailedResult(qname, rtt, err, queryTime) ==
    [isNil |-> FALSE, Domain |-> qname, Response |-> NoMsg, RTT |-> rtt, Server |-> "",
     Error |-> err, Answers |-> [isNil |-> TRUE, list |-> <<>>], QueryTime |-> queryTime]

\* PlainDNSClientAdapter.Query for the outcome x of Exchange: [result, err]
PlainDNSClientAdapterQuery(qname, queryTime, x) ==
    LET res == [isNil |-> FALSE, Domain |-> qname, Response |-> x.response,
                   RTT |-> x.rtt, Server |-> PlainResolver, Error |-> x.err,
                   Answers |-> Answers(<<>>), QueryTime |-> queryTime]
    IN  IF x.err # "nil" THEN [result |-> res, err |-> x.err]
        ELSE IF x.response = NoMsg THEN [result |-> res, err |-> "nil"]
        ELSE [result |-> [res EXCEPT
                            !.Answers = Answers(ExtractAnswers(x.response.Answer))],
              err |-> "nil"]

\* DoTClient.Query for the outcome x of Exchange: [result, err]
DoTClientQuery(qname, queryTime, x) ==
    LET res == [isNil |-> FALSE, Domain |-> qname, Response |-> x.response,
                   RTT |-> x.rtt, Server |-> DoTServerAddr, Error |-> x.err,
                   Answers |-> Answers(<<>>), QueryTime |-> queryTime]
    IN  IF x.err # "nil" THEN [result |-> res, err |-> "DoT query failed"]
        ELSE IF x.response = NoMsg THEN [result |-> res, err |-> "no response received"]
        ELSE [result |-> [res EXCEPT
                            !.Answers = Answers(ExtractAnswers(x.response.Answer))],
              err |-> "nil"]

\* DoHClient.Query after the query was packed, for the outcome x of httpClient.Do
DoHClientQuery(qname, queryTime, x) ==
    IF x.err # "nil"
    THEN [result |-> FailedResult(qname, 0, x.err, queryTime),
          err |-> "HTTP request failed"]
    ELSE IF x.status # 200
    THEN [result |-> FailedResult(qname, x.rtt, "HTTP status", queryTime),
          err |-> "server returned HTTP status"]
    ELSE IF x.readErr
    THEN [result |-> FailedResult(qname, x.rtt, "read", queryTime),
          err |-> "failed to read response"]
    ELSE IF ~Unpack(x.body).ok
    THEN [result |-> FailedResult(qname, x.rtt, "unpack", queryTime),
          err |-> "failed to unpack DNS response"]
    ELSE LET dnsResponse == Unpack(x.body).msg
         IN  [result |-> [isNil |-> FALSE, Domain |-> qname, Response |-> dnsResponse,
                          RTT |-> x.rtt, Server |-> DoHServerURL, Error |-> "nil",
                          Answers |-> Answers(ExtractAnswers(dnsResponse.Answer)),
                          QueryTime |-> queryTime],
              err |-> "nil"]

\* the rest of the process while a unit runs on its own
IdleProcess == NoServer /\ NoBeacon

\* a client of one kind, about to be asked for a domain
InitClient ==
    /\ cKind \in ClientKinds
    /\ cDomain \in ClientDomains
    /\ cpc = "idle"
    /\ cNow = 0
    /\ cWire = NoWire
    /\ qres = NilQueryResult
    /\ qerr = "nil"
    /\ IdleProcess
    /\ NoDelay
    /\ NoGenerator
    /\ NoMore

\* a call of PlainDNSClientAdapter.Query
QueryPlain ==
    /\ cpc = "idle"
    /\ cKind = "plain"
    /\ \E t \in ClockReadings, x \in Exchange(cDomain) :
         /\ cNow' = t
         /\ cWire' = x
         /\ qres' = PlainDNSClientAdapterQuery(cDomain, t, x).result
         /\ qerr' = PlainDNSClientAdapterQuery(cDomain, t, x).err
    /\ cpc' = "done"
    /\ UNCHANGED <<cKind, cDomain>>
    /\ UNCHANGED <<serverVars, handlerVars, beaconVars, delayVars, genVars, moreVars>>

\* a call of DoTClient.Query
QueryDoT ==
    /\ cpc = "idle"
    /\ cKind = "dot"
    /\ \E t \in ClockReadings, x \in Exchange(cDomain) :
         /\ cNow' = t
         /\ cWire' = x
         /\ qres' = DoTClientQuery(cDomain, t, x).result
         /\ qerr' = DoTClientQuery(cDomain, t, x).err
    /\ cpc' = "done"
    /\ UNCHANGED <<cKind, cDomain>>
    /\ UNCHANGED <<serverVars, handlerVars, beaconVars, delayVars, genVars, moreVars>>

\* a call of DoHClient.Query: a query that does not pack returns (nil, err) at once
QueryDoH ==
    /\ cpc = "idle"
    /\ cKind = "doh"
    /\ IF ~QueryPacks(cDomain)
       THEN /\ qres' = NilQueryResult
            /\ qerr' = "failed to pack DNS message"
            /\ UNCHANGED <<cNow, cWire>>
       ELSE \E t \in ClockReadings, x \in HttpDo(cDomain) :
              /\ cNow' = t
              /\ cWire' = x
              /\ qres' = DoHClientQuery(cDomain, t, x).result
              /\ qerr' = DoHClientQuery(cDomain, t, x).err
    /\ cpc' = "done"
    /\ UNCHANGED <<cKind, cDomain>>
    /\ UNCHANGED <<serverVars, handlerVars, beaconVars, delayVars, genVars, moreVars>>

NextClient ==
    \/ QueryPlain
    \/ QueryDoT
    \/ QueryDoH

SpecClient == InitClient /\ [][NextClient]_vars

(***************************************************************************)
(* Properties of the clients.                                              *)
(***************************************************************************)
\* the call ended in a failed exchange: the query went to the transport and Query
\* returned an error
FailedExchange == cpc = "done" /\ qerr # "nil" /\ cNow # 0 /\ cWire.err # "pack"

\* C11: after every failed exchange, of each client, Query has returned a QueryResult
\* that is not nil, with the error set, the server address and the query time filled
\* in, and the round-trip time once a response had arrived.
C11_FailureKeepsTelemetry ==
    FailedExchange =>
        /\ ~qres.isNil
        /\ qres.Error # "nil"
        /\ qres.Server # ""
        /\ qres.QueryTime = cNow
        /\ cWire.rtt > 0 => qres.RTT = cWire.rtt

\* C12: a call of DoHClient.Query that reports success had an HTTP response of status
\* 200 and content type application/dns-message whose body unpacks as a DNS message.
C12_DoHSuccessNeedsContentType ==
    (cpc = "done" /\ cKind = "doh" /\ qerr = "nil") =>
        /\ cWire.status = 200
        /\ cWire.ctype = ContentTypeDNS
        /\ Unpack(cWire.body).ok

\* the answer section of the response the call received
ReceivedAnswer ==
    IF cKind = "doh" THEN Unpack(cWire.body).msg.Answer ELSE cWire.response.Answer

\* the address texts of the A records of an answer section, in their order
AddressTexts(rrs) ==
    LET as == SelectSeq(rrs, LAMBDA rr : rr.Rrtype = TypeA)
    IN  [i \in 1..Len(as) |-> as[i].A.text]

\* C13: after a successful exchange, of each client, the result's answer list is not nil
\* and holds the address strings of exactly the A records of the response's answer
\* section, in their order (so it is empty when the response holds no A record).
C13_AnswersAreTheARecords ==
    (cpc = "done" /\ qerr = "nil") =>
        /\ ~qres.isNil
        /\ ~qres.Answers.isNil
        /\ qres.Answers.list = AddressTexts(ReceivedAnswer)

\* C13 witness: a successful exchange whose response held an A record after a record
\* that is no A record
C13_Witness ==
    /\ cpc = "done"
    /\ qerr = "nil"
    /\ Len(ReceivedAnswer) = 2
    /\ ReceivedAnswer[1].Rrtype = TypeNS
    /\ ReceivedAnswer[2].Rrtype = TypeA
    /\ qres.Answers.list = <<"10.0.0.2">>

(***************************************************************************)
(* calculateDelay on its own: a beacon that was constructed and whose      *)
(* calculateDelay is called once.                                          *)
(***************************************************************************)
\* the base delays and jitter bounds of the beacon, in ticks
DelayBases == 0..(6 * Second)
DelayJitters == 0..(2 * Second)

\* NewBeacon(client, generator, domain, baseDelay, jitter); Start is not called
InitDelay ==
    /\ clientKind = "plain"
    /\ baseDelay \in DelayBases
    /\ jitter \in DelayJitters
    /\ generator = [min |-> 1, max |-> 1, dom |-> 0]
    /\ ctxDone = FALSE
    /\ preCancelled = FALSE
    /\ bpc = "none"
    /\ loopCount = 0
    /\ fqdnFresh = FALSE
    /\ outstanding = 0
    /\ transportCtx = "none"
    /\ elapsed = 0
    /\ queryErr = "none"
    /\ remaining = 0
    /\ ret = "none"
    /\ issued = 0
    /\ generated = 0
    /\ waits = 0
    /\ NoServer
    /\ NoClient
    /\ NoDelay
    /\ NoGenerator
    /\ NoMore

\* a call of b.calculateDelay()
CallCalculateDelay ==
    /\ ~delay.set
    /\ \E r \in JitterDraws :
         /\ draw' = r
         /\ delay' = [set |-> TRUE, d |-> calculateDelay(r)]
    /\ UNCHANGED <<serverVars, handlerVars, beaconVars, clientVars, genVars, moreVars>>

NextDelay == CallCalculateDelay

SpecDelay == InitDelay /\ [][NextDelay]_vars

(***************************************************************************)
(* Properties of the delay.                                                *)
(***************************************************************************)
\* C14: every delay the beacon starts to wait, as calculateDelay returned it, is at
\* least one second, whatever base delay and jitter the beacon was given.
C14_DelayAtLeastOneSecond ==
    [][(bpc = "calc" /\ bpc' = "wait") => remaining' >= Second]_vars

\* C15: with jitter > 0 and an offset d = n - jitter drawn, -jitter <= d < jitter and
\* calculateDelay returns the larger of one second and baseDelay + d, which is one
\* second or lies in [baseDelay - jitter, baseDelay + jitter]; for base 5s and jitter
\* 2s it lies in [3s, 7s].
C15_JitteredDelayInRange ==
    (delay.set /\ jitter > 0 /\ draw.ok) =>
        LET d == draw.n - jitter
        IN  /\ -jitter <= d /\ d < jitter
            /\ delay.d = IF baseDelay + d > Second THEN baseDelay + d ELSE Second
            /\ \/ delay.d = Second
               \/ delay.d \in (baseDelay - jitter)..(baseDelay + jitter)
            /\ (baseDelay = 5 * Second /\ jitter = 2 * Second) =>
                  delay.d \in (3 * Second)..(7 * Second)

\* C15 witness: a draw whose sum with the base delay is below one second, floored
C15_Witness ==
    /\ delay.set
    /\ jitter > 0
    /\ draw.ok
    /\ baseDelay + (draw.n - jitter) < Second
    /\ delay.d = Second

\* C16: with jitter zero calculateDelay returns exactly the base delay.
C16_ZeroJitterIsBase == (delay.set /\ jitter = 0) => delay.d = baseDelay

\* C16 witness: a call with jitter zero and a base delay below one second
C16_Witness ==
    /\ delay.set
    /\ jitter = 0
    /\ baseDelay > 0
    /\ baseDelay < Second
    /\ delay.d = baseDelay

(***************************************************************************)
(* The subdomain generator on its own: NewSubdomainGenerator, then one     *)
(* call of Generate or of GenerateWithDomain.                              *)
(***************************************************************************)
\* the longest label of a DNS name, the bound of minLength and maxLength
MaxLabelLength == 63

\* the arguments NewSubdomainGenerator is called with
GenLengths == {-1, 0, 1, 2, 8, 45, 60, 62, MaxLabelLength, MaxLabelLength + 1}

\* the byte streams rand.Read fills the buffer from: byte i is (start + i * step) % 256
ByteStreams ==
    { [start |-> 0, step |-> 0], [start |-> 255, step |-> 0],
      [start |-> 11, step |-> 37], [start |-> 200, step |-> 101] }

RandomBytes(stream, n) == [i \in 1..n |-> (stream.start + (i - 1) * stream.step) % 256]

\* a domain of n characters, labels of three characters
DomainOfLength(n) == [i \in 1..n |-> IF i % 4 = 0 THEN Dot ELSE "x"]

\* the domain argument of GenerateWithDomain, by length
GenDomains == { DomainOfLength(n) : n \in {0, 19, 189, 190, 252} }

\* base32.StdEncoding: the alphabet
Base32Alphabet ==
    <<"A", "B", "C", "D", "E", "F", "G", "H", "I", "J", "K", "L", "M", "N", "O", "P", "Q", "R", "S", "T", "U", "V", "W", "X", "Y", "Z",
      "2", "3", "4", "5", "6", "7">>

LowerLetters ==
    <<"a", "b", "c", "d", "e", "f", "g", "h", "i", "j", "k", "l", "m", "n", "o", "p", "q", "r", "s", "t", "u", "v", "w", "x", "y", "z">>

\* bit i (from 0, most significant first) of a byte sequence, 0 past its end
BitAt(bytes, i) ==
    IF i >= 8 * Len(bytes) THEN 0
    ELSE (bytes[(i \div 8) + 1] \div (2 ^ (7 - (i % 8)))) % 2

\* the 5-bit group k (from 0) of a byte sequence
Quintet(bytes, k) ==
    16 * BitAt(bytes, 5 * k) + 8 * BitAt(bytes, 5 * k + 1) + 4 * BitAt(bytes, 5 * k + 2)
    + 2 * BitAt(bytes, 5 * k + 3) + BitAt(bytes, 5 * k + 4)

\* base32.StdEncoding.WithPadding(base32.NoPadding).EncodeToString
EncodeToString(bytes) ==
    [k \in 1..((8 * Len(bytes) + 4) \div 5) |-> Base32Alphabet[Quintet(bytes, k - 1) + 1]]

\* strings.ToLower on the characters of an encoded string
StringsToLower(str) ==
    [i \in 1..Len(str) |->
        IF \E j \in 1..26 : Base32Alphabet[j] = str[i]
        THEN LowerLetters[CHOOSE j \in 1..26 : Base32Alphabet[j] = str[i]]
        ELSE str[i]]

\* NewSubdomainGenerator without the comparison of maxLength with minLength
NewSubdomainGeneratorUnordered(minLength, maxLength) ==
    IF minLength < 1 \/ minLength > MaxLabelLength
       \/ maxLength < 1 \/ maxLength > MaxLabelLength
    THEN [err |-> TRUE, minLength |-> 0, maxLength |-> 0]
    ELSE [err |-> FALSE, minLength |-> minLength, maxLength |-> maxLength]

\* NewSubdomainGenerator: (nil, err) or a generator with the two bounds
NewSubdomainGenerator(minLength, maxLength) ==
    IF minLength < 1 \/ minLength > MaxLabelLength
    THEN [err |-> TRUE, minLength |-> 0, maxLength |-> 0]
    ELSE IF maxLength < minLength \/ maxLength > MaxLabelLength
    THEN [err |-> TRUE, minLength |-> 0, maxLength |-> 0]
    ELSE [err |-> FALSE, minLength |-> minLength, maxLength |-> maxLength]

\* randomLength for the number n that rand.Int drew below rangeSize
randomLength(g, n) ==
    IF g.minLength = g.maxLength THEN g.minLength ELSE g.minLength + n

\* the numbers rand.Int can draw in randomLength
LengthDraws(g) ==
    IF g.minLength = g.maxLength THEN {0} ELSE 0..(g.maxLength - g.minLength)

\* the byte count without the extra byte
bytesNeededExact(length) == (length * 5) \div 8

\* bytesNeeded := ((length * 5) / 8) + 1
bytesNeeded(length) == ((length * 5) \div 8) + 1

\* Generate after the draws: encode, lower the case, cut to the drawn length
GenerateFrom(length, randomBytes) ==
    LET encoded == StringsToLower(EncodeToString(randomBytes))
    IN  IF Len(encoded) > length THEN SubSeq(encoded, 1, length) ELSE encoded

\* GenerateWithDomain that cuts a name that is too long
GenerateWithDomainCut(subdomain, name) ==
    LET fqdn == subdomain \o <<Dot>> \o name
    IN  IF Len(fqdn) > MaxFqdnLength
        THEN [err |-> FALSE, s |-> SubSeq(fqdn, 1, MaxFqdnLength)]
        ELSE [err |-> FALSE, s |-> fqdn]

\* GenerateWithDomain after Generate returned subdomain: fmt.Sprintf("%s.%s", ...) and
\* the check of the length
GenerateWithDomain(subdomain, name) ==
    LET fqdn == subdomain \o <<Dot>> \o name
    IN  IF Len(fqdn) > MaxFqdnLength
        THEN [err |-> TRUE, s |-> <<>>]
        ELSE [err |-> FALSE, s |-> fqdn]

\* what a call of Generate can come to: rand.Int fails in randomLength, rand.Read fails,
\* or a length and bytes are drawn and the label is made of them
GenerateOutcomes(g) ==
    (IF g.minLength = g.maxLength THEN {}
     ELSE { [length |-> 0, bytes |-> <<>>, err |-> TRUE, s |-> <<>>] })
    \cup { [length |-> randomLength(g, n), bytes |-> <<>>, err |-> TRUE, s |-> <<>>] :
             n \in LengthDraws(g) }
    \cup { [length |-> randomLength(g, n),
            bytes |-> RandomBytes(st, bytesNeeded(randomLength(g, n))),
            err |-> FALSE,
            s |-> GenerateFrom(randomLength(g, n),
                               RandomBytes(st, bytesNeeded(randomLength(g, n))))] :
             n \in LengthDraws(g), st \in ByteStreams }

\* the arguments of a NewSubdomainGenerator call that has not been made yet
InitGen ==
    /\ gArgs \in [minLength : GenLengths, maxLength : GenLengths]
    /\ gen = [err |-> TRUE, minLength |-> 0, maxLength |-> 0]
    /\ gpc = "new"
    /\ gLength = 0
    /\ gBytes = <<>>
    /\ gDomain = <<>>
    /\ gOut = [err |-> FALSE, s |-> <<>>]
    /\ IdleProcess
    /\ NoClient
    /\ NoDelay
    /\ NoMore

\* the call of NewSubdomainGenerator(minLength, maxLength)
Construct ==
    /\ gpc = "new"
    /\ gen' = NewSubdomainGenerator(gArgs.minLength, gArgs.maxLength)
    /\ gpc' = IF NewSubdomainGenerator(gArgs.minLength, gArgs.maxLength).err
              THEN "failed" ELSE "ready"
    /\ UNCHANGED <<gArgs, gLength, gBytes, gDomain, gOut>>
    /\ UNCHANGED <<serverVars, handlerVars, beaconVars, clientVars, delayVars, moreVars>>

\* a call of g.Generate()
CallGenerate ==
    /\ gpc = "ready"
    /\ \E o \in GenerateOutcomes(gen) :
         /\ gLength' = o.length
         /\ gBytes' = o.bytes
         /\ gOut' = [err |-> o.err, s |-> o.s]
    /\ gpc' = "generated"
    /\ UNCHANGED <<gArgs, gen, gDomain>>
    /\ UNCHANGED <<serverVars, handlerVars, beaconVars, clientVars, delayVars, moreVars>>

\* a call of g.GenerateWithDomain(domain)
CallGenerateWithDomain ==
    /\ gpc = "ready"
    /\ \E name \in GenDomains, o \in GenerateOutcomes(gen) :
         /\ gDomain' = name
         /\ gLength' = o.length
         /\ gBytes' = o.bytes
         /\ gOut' = IF o.err THEN [err |-> TRUE, s |-> <<>>]
                    ELSE GenerateWithDomain(o.s, name)
    /\ gpc' = "named"
    /\ UNCHANGED <<gArgs, gen>>
    /\ UNCHANGED <<serverVars, handlerVars, beaconVars, clientVars, delayVars, moreVars>>

NextGen ==
    \/ Construct
    \/ CallGenerate
    \/ CallGenerateWithDomain

SpecGen == InitGen /\ [][NextGen]_vars

(***************************************************************************)
(* Properties of the generator.                                            *)
(***************************************************************************)
\* the characters a label may hold: a-z and 2-7
LabelAlphabet ==
    {"a", "b", "c", "d", "e", "f", "g", "h", "i", "j", "k", "l", "m", "n", "o", "p",
     "q", "r", "s", "t", "u", "v", "w", "x", "y", "z", "2", "3", "4", "5", "6", "7"}

\* C17: a call of Generate on a constructed generator (1 <= min <= max <= 63) that drew
\* its length L and its floor(5L/8)+1 bytes returns a string of exactly L characters,
\* min <= L <= max, all of them in a-z or 2-7; the encoding of the bytes is never
\* shorter than L.
C17_GenerateLengthAndAlphabet ==
    (gpc = "generated" /\ ~gOut.err) =>
        /\ 1 <= gen.minLength /\ gen.maxLength <= MaxLabelLength
        /\ gen.minLength <= gLength /\ gLength <= gen.maxLength
        /\ Len(gBytes) = ((5 * gLength) \div 8) + 1
        /\ Len(EncodeToString(gBytes)) >= gLength
        /\ Len(gOut.s) = gLength
        /\ \A i \in 1..Len(gOut.s) : gOut.s[i] \in LabelAlphabet

\* C17 witness: a label of the full 63 characters, cut from a longer encoding, of a
\* generator with bounds 1 and 63
C17_Witness ==
    /\ gpc = "generated"
    /\ ~gOut.err
    /\ gen.minLength = 1
    /\ gLength = MaxLabelLength
    /\ Len(EncodeToString(gBytes)) > gLength
    /\ Len(gOut.s) = MaxLabelLength

\* C18: a call of GenerateWithDomain whose label was generated returns an error and no
\* name when len(label) + 1 + len(domain) exceeds 253, and the whole of
\* label + "." + domain otherwise.
C18_TooLongNameIsAnError ==
    (gpc = "named" /\ gBytes # <<>>) =>
        LET label == GenerateFrom(gLength, gBytes)
        IN  IF Len(label) + 1 + Len(gDomain) > 253
            THEN gOut.err /\ gOut.s = <<>>
            ELSE /\ ~gOut.err
                 /\ Len(gOut.s) = Len(label) + 1 + Len(gDomain)
                 /\ SubSeq(gOut.s, 1, Len(label)) = label
                 /\ gOut.s[Len(label) + 1] = "."
                 /\ SubSeq(gOut.s, Len(label) + 2, Len(gOut.s)) = gDomain

\* C18 witness: a name one character too long, refused
C18_Witness ==
    /\ gpc = "named"
    /\ gBytes # <<>>
    /\ gLength + 1 + Len(gDomain) = 254
    /\ gOut.err

\* C19: NewSubdomainGenerator returns an error and no generator exactly when minLength
\* or maxLength is outside 1..63 or maxLength < minLength, and else a generator that
\* holds the two bounds.
C19_ConstructorValidates ==
    gpc # "new" =>
        /\ gen.err <=> \/ gArgs.minLength \notin 1..63
                       \/ gArgs.maxLength \notin 1..63
                       \/ gArgs.maxLength < gArgs.minLength
        /\ gen.err => gpc = "failed"
        /\ ~gen.err => /\ gen.minLength = gArgs.minLength
                       /\ gen.maxLength = gArgs.maxLength

\* C19 witness: both bounds within 1..63 and maxLength below minLength, refused
C19_Witness ==
    /\ gpc = "failed"
    /\ gArgs.minLength \in 1..63
    /\ gArgs.maxLength \in 1..63
    /\ gArgs.maxLength < gArgs.minLength
    /\ gen.err

(***************************************************************************)
(* Properties of the DoH endpoint.                                         *)
(***************************************************************************)
\* C20: /dns-query has answered every request that is not a POST with 405, and every
\* POST whose Content-Type is not application/dns-message with 400; a request that is
\* no POST and has another content type gets 405.
C20_MethodThenContentType ==
    pc["doh"] \in {"sent", "got"} =>
        /\ req["doh"].method # "POST" => out["doh"].status = 405
        /\ (req["doh"].method = "POST" /\ req["doh"].ctype # ContentTypeDNS) =>
              out["doh"].status = 400

\* C20 witness: a GET with content type text/plain was answered 405
C20_Witness ==
    /\ pc["doh"] = "sent"
    /\ req["doh"].method = "GET"
    /\ req["doh"].ctype = "text/plain"
    /\ out["doh"].status = 405

\* a request that /dns-query has to reject: wrong method, wrong content type, a body
\* that cannot be read, or a body that is no DNS message
Rejected(rq) ==
    \/ rq.method # "POST"
    \/ rq.ctype # ContentTypeDNS
    \/ rq.readErr
    \/ ~Unpack(rq.body).ok

\* C21: a DoH request that has to be rejected is answered with a 4xx status without
\* ServeDNS being entered, and from its arrival until its handler has returned the
\* responder's state, the query counter included, does not change; the handler then is
\* idle again, ready for the next request.
C21_RejectedNeverReachesResponder ==
    [][/\ (pc["doh"] = "idle" /\ pc'["doh"] # "idle" /\ Rejected(req'["doh"])) =>
             /\ pc'["doh"] = "sent"
             /\ out'["doh"].status \in 400..499
             /\ calls' = calls
             /\ passed' = passed
             /\ UNCHANGED serverVars
       /\ (pc["doh"] \in {"sent", "got"} /\ Rejected(req["doh"])) =>
             /\ pc'["doh"] = IF pc["doh"] = "sent" THEN "got" ELSE "idle"
             /\ calls' = calls
             /\ passed' = passed
             /\ UNCHANGED serverVars
             /\ mu = "free"]_vars

\* C21 witness: a POST of the right content type whose body does not unpack has been
\* answered 400, after the same listener served a query
C21_Witness ==
    /\ pc["doh"] = "got"
    /\ req["doh"].method = "POST"
    /\ req["doh"].ctype = ContentTypeDNS
    /\ ~req["doh"].readErr
    /\ ~Unpack(req["doh"].body).ok
    /\ out["doh"].status = 400
    /\ queryCount = 1
    /\ calls = 1

(***************************************************************************)
(* More properties of the responder.                                       *)
(***************************************************************************)
\* C25: every type-NS question for the served domain or a name below it gets exactly
\* one NS record with the question's name, the target "ns1." followed by the served
\* domain in its fully qualified form and the configured TTL, and the response code is
\* success.
C25_NSRecordPerQuestion ==
    \A l \in Listeners :
        Served(l) =>
            \A i \in 1..Len(query[l].Question) :
                LET q == query[l].Question[i]
                IN  (q.Qtype = TypeNS /\ UnderDomain(q.Name, domain)) =>
                      /\ Cardinality(RecordsOf(msg[l].Answer, TypeNS, q.Name))
                           = Cardinality(QuestionsOf(query[l].Question, TypeNS, q.Name))
                      /\ \A j \in RecordsOf(msg[l].Answer, TypeNS, q.Name) :
                            /\ msg[l].Answer[j].Ttl = ttl
                            /\ msg[l].Answer[j].Ns = <<"n", "s", "1", ".">> \o domain
                            /\ domain[Len(domain)] = "."
                      /\ msg[l].Rcode = RcodeSuccess

\* C25 witness: an NS query for a name below the served two-label domain was answered
\* with one NS record, the domain having been configured without its final dot
C25_Witness ==
    \E l \in Listeners :
        /\ Served(l)
        /\ Len(query[l].Question) = 1
        /\ query[l].Question[1].Qtype = TypeNS
        /\ query[l].Question[1].Name = <<"a", ".", "b", ".", "a", ".">>
        /\ domain = <<"b", ".", "a", ".">>
        /\ ttl = 300
        /\ msg[l].Answer = <<[Name |-> <<"a", ".", "b", ".", "a", ".">>, Rrtype |-> TypeNS,
                              Ttl |-> 300,
                              Ns |-> <<"n", "s", "1", ".", "b", ".", "a", ".">>]>>

(***************************************************************************)
(* More properties of the beacon.                                          *)
(***************************************************************************)
\* C26: the top of the loop is reached again only from the wait at the end of an
\* iteration, with the delay of that iteration run out.
C26_IterationsAreSpacedByDelay ==
    [][(bpc # "check" /\ bpc' = "check") => (bpc = "wait" /\ remaining = 0)]_vars

\* C27: when Start has returned, the count it reports (its queryCount) is the number of
\* Query calls it made.
C27_ReportedCountIsIssued == bpc = "returned" => loopCount = issued

\* Start is a running goroutine, time passes, and a Query call returns: each step of
\* the loop that can be taken is taken
SpecBeaconLive ==
    /\ InitBeacon
    /\ [][NextBeacon]_vars
    /\ WF_vars(CheckCancelled)
    /\ WF_vars(Generate)
    /\ WF_vars(StartQuery)
    /\ WF_vars(QueryReturn)
    /\ WF_vars(CalcDelay)
    /\ WF_vars(WaitDelay)
    /\ WF_vars(Tick)

\* C28: an iteration begins only when the check at the top of the loop finds the
\* context not cancelled, and a query is started only in such an iteration; once the
\* context is cancelled Start eventually returns the cancellation error; and after
\* Start has returned nothing happens: no query, no name, no delay.
C28_CancelledIsReachedAndFinal ==
    /\ [][/\ (bpc # "generate" /\ bpc' = "generate") => (bpc = "check" /\ ~ctxDone)
          /\ (bpc # "send" /\ bpc' = "send") => bpc = "generate"
          /\ (bpc # "query" /\ bpc' = "query") => bpc = "send"
          /\ bpc' = "returned" => ret' = "canceled"
          /\ bpc = "returned" =>
                UNCHANGED <<bpc, ret, issued, generated, waits, outstanding, remaining,
                            loopCount>>]_vars
    /\ ctxDone ~> (bpc = "returned" /\ ret = "canceled")

\* C28 witness: Start has returned after a cancellation that came while a query was in
\* flight and that the query did not see before its timeout
C28_Witness ==
    /\ bpc = "returned"
    /\ ret = "canceled"
    /\ ~preCancelled
    /\ queryErr = "timeout"
    /\ issued = 1
    /\ waits = 1

(***************************************************************************)
(* PlainDNSClient.QueryWithRetry: one call, with a context that may be     *)
(* cancelled at any moment and a transport that may fail every time.       *)
(***************************************************************************)
\* most retries a caller asks for
MaxRetries == 2

\* the maxRetries argument
RetryCounts == 0..MaxRetries

\* the domain argument: a name, and one with an empty label that no query can carry
RetryDomains == { <<"b", ".", "a">>, <<"b", ".", ".", "a">> }

\* what the transport gives an attempt: every failure, and the successful exchanges of
\* one round-trip time with at most one record
RetryExchanges(qname) ==
    { x \in Exchange(qname) :
        \/ x.err # "nil"
        \/ x.rtt = 1 /\ x.response.Rcode = RcodeSuccess /\ Len(x.response.Answer) <= 1 }

\* fmt.Errorf(text + ": %w", err)
Errorf(text, err) == [text |-> text, wraps |-> err]

\* PlainDNSClient.Query for the outcome x of Exchange: [result, err]
PlainDNSClientQuery(qname, queryTime, x) ==
    LET res == [isNil |-> FALSE, Domain |-> qname, Response |-> x.response,
                RTT |-> x.rtt, Server |-> PlainResolver, Error |-> x.err,
                Answers |-> Answers(<<>>), QueryTime |-> queryTime]
    IN  IF x.err # "nil" THEN [result |-> res, err |-> Errorf("DNS query failed", x.err)]
        ELSE IF x.response = NoMsg
        THEN [result |-> res, err |-> Errorf("no response received", "nil")]
        ELSE [result |-> [res EXCEPT
                            !.Answers = Answers(ExtractAnswers(x.response.Answer))],
              err |-> NilErr]

\* a backoff of one second whatever the attempt
backoffConstant(n) == Second

\* backoff := time.Duration(attempt+1) * time.Second
backoff(n) == (n + 1) * Second

\* a backoff select that watches the timer only
BackoffReadyTimerOnly == rRemaining = 0

\* the select of the backoff wait has a case that can proceed
BackoffReady == rRemaining = 0 \/ rCtxDone

\* return nil, ctx.Err()
ReturnCtxErr ==
    /\ rpc' = "returned"
    /\ rRet' = [result |-> NilQueryResult, err |-> "context canceled", attempts |-> 0,
                wraps |-> NilErr]

\* a caller with a context that may already be cancelled
InitRetry ==
    /\ maxRetries \in RetryCounts
    /\ rDomain \in RetryDomains
    /\ rCtxDone \in BOOLEAN
    /\ rpc = "top"
    /\ attempt = 0
    /\ lastErr = NilErr
    /\ rRemaining = 0
    /\ rWaited = 0
    /\ rTries = <<>>
    /\ rWaits = <<>>
    /\ rRet = NoReturn
    /\ IdleProcess
    /\ NoClient
    /\ NoDelay
    /\ NoGenerator
    /\ InitStatsCallers
    /\ NoMain

\* the loop condition, the select on ctx.Done() with its default, and the call of c.Query;
\* after the loop, the return of the error that wraps lastErr
RetryTop ==
    /\ rpc = "top"
    /\ IF attempt > maxRetries
       THEN /\ rpc' = "returned"
            /\ rRet' = [result |-> NilQueryResult, err |-> "query failed after attempts",
                        attempts |-> maxRetries + 1, wraps |-> lastErr]
       ELSE IF rCtxDone
       THEN ReturnCtxErr
       ELSE /\ rpc' = "query"
            /\ UNCHANGED rRet
    /\ UNCHANGED <<maxRetries, rDomain, rCtxDone, attempt, lastErr, rRemaining, rWaited,
                   rTries, rWaits>>
    /\ UNCHANGED <<serverVars, handlerVars, beaconVars, clientVars, delayVars, genVars,
                   statsVars, mainVars>>

\* c.Query returns: a success is returned at once, a failure is kept in lastErr and, if
\* this was not the last attempt, the timer of the backoff is started
RetryQueryReturn ==
    /\ rpc = "query"
    /\ \E t \in ClockReadings, x \in RetryExchanges(rDomain) :
         LET q == PlainDNSClientQuery(rDomain, t, x)
         IN  /\ rTries' = Append(rTries, q)
             /\ IF q.err = NilErr
                THEN /\ rpc' = "returned"
                     /\ rRet' = [result |-> q.result, err |-> "nil", attempts |-> 0,
                                 wraps |-> NilErr]
                     /\ UNCHANGED <<attempt, lastErr, rRemaining, rWaited>>
                ELSE /\ lastErr' = q.err
                     /\ UNCHANGED rRet
                     /\ IF attempt < maxRetries
                        THEN /\ rpc' = "backoff"
                             /\ rRemaining' = backoff(attempt)
                             /\ rWaited' = 0
                             /\ UNCHANGED attempt
                        ELSE /\ rpc' = "top"
                             /\ attempt' = attempt + 1
                             /\ UNCHANGED <<rRemaining, rWaited>>
    /\ UNCHANGED <<maxRetries, rDomain, rCtxDone, rWaits>>
    /\ UNCHANGED <<serverVars, handlerVars, beaconVars, clientVars, delayVars, genVars,
                   statsVars, mainVars>>

\* the select of the backoff wait: the timer's case goes on to the next attempt, the
\* case of ctx.Done() returns; when both can proceed either is taken
RetryBackoff ==
    /\ rpc = "backoff"
    /\ BackoffReady
    /\ \/ /\ rRemaining = 0
          /\ rpc' = "top"
          /\ attempt' = attempt + 1
          /\ rWaits' = Append(rWaits, rWaited)
          /\ rWaited' = 0
          /\ UNCHANGED rRet
       \/ /\ rCtxDone
          /\ ReturnCtxErr
          /\ UNCHANGED <<attempt, rWaits, rWaited>>
    /\ UNCHANGED <<maxRetries, rDomain, rCtxDone, lastErr, rRemaining, rTries>>
    /\ UNCHANGED <<serverVars, handlerVars, beaconVars, clientVars, delayVars, genVars,
                   statsVars, mainVars>>

\* time passes while QueryWithRetry is blocked in the backoff wait
RetryTick ==
    /\ rpc = "backoff"
    /\ ~BackoffReady
    /\ rRemaining' = rRemaining - 1
    /\ rWaited' = rWaited + 1
    /\ UNCHANGED <<maxRetries, rDomain, rCtxDone, rpc, attempt, lastErr, rTries, rWaits,
                   rRet>>
    /\ UNCHANGED <<serverVars, handlerVars, beaconVars, clientVars, delayVars, genVars,
                   statsVars, mainVars>>

\* the caller cancels the context
RetryCancel ==
    /\ rpc \in {"top", "query", "backoff"}
    /\ ~rCtxDone
    /\ rCtxDone' = TRUE
    /\ UNCHANGED <<maxRetries, rDomain, rpc, attempt, lastErr, rRemaining, rWaited,
                   rTries, rWaits, rRet>>
    /\ UNCHANGED <<serverVars, handlerVars, beaconVars, clientVars, delayVars, genVars,
                   statsVars, mainVars>>

NextRetry ==
    \/ RetryTop
    \/ RetryQueryReturn
    \/ RetryBackoff
    \/ RetryTick
    \/ RetryCancel

SpecRetry == InitRetry /\ [][NextRetry]_vars

\* the c.Query calls QueryWithRetry has begun
Started == Len(rTries) + (IF rpc = "query" THEN 1 ELSE 0)

C23_CancelBetweenAttempts ==
    [][/\ Started' > Started => ~rCtxDone
       /\ (rCtxDone /\ rpc = "top" /\ attempt <= maxRetries /\ rpc' # "top") =>
             /\ rpc' = "returned"
             /\ rRet'.err = "context canceled"
             /\ rRet'.result = NilQueryResult
       /\ (rCtxDone /\ rpc = "backoff") =>
             /\ rRemaining' = rRemaining
             /\ Started' = Started
             /\ \/ /\ rpc' = "returned"
                   /\ rRet'.err = "context canceled"
                   /\ rRet'.result = NilQueryResult
                   /\ rWaited' = rWaited
                \/ /\ rpc' = "top"
                   /\ rRemaining = 0
                   /\ rWaits' = Append(rWaits, rWaited)
                   /\ attempt' <= maxRetries]_vars

\* C23 witness: the context was cancelled in the second backoff wait, one tick into it,
\* and the call returned the context's error after two attempts
C23_Witness ==
    /\ rpc = "returned"
    /\ rCtxDone
    /\ rRet.err = "context canceled"
    /\ Len(rTries) = 2
    /\ rWaits = <<Second>>
    /\ rWaited = 1
    /\ rRemaining = 2 * Second - 1

(***************************************************************************)
(* Server.GetStats beside the handlers: the statistics printer and main    *)
(* read the counter while the listeners serve queries at once.             *)
(***************************************************************************)
\* most GetStats calls of one run
MaxStatsCalls == 2

\* GetStats without s.mu.Lock()
StatsLockWithoutExclusion(c) ==
    /\ spc[c] = "lock"
    /\ spc' = [spc EXCEPT ![c] = "read"]
    /\ sAtLock' = [sAtLock EXCEPT ![c] = passed]
    /\ UNCHANGED <<serverVars, sCount, sRets, sCalls>>
    /\ UNCHANGED <<handlerVars, beaconVars, clientVars, delayVars, genVars, retryVars,
                   mainVars>>

\* a goroutine calls handler.GetStats()
StatsCall(c) ==
    /\ ~srvErr
    /\ mpc = "none"
    /\ spc[c] = "idle"
    /\ sCalls < MaxStatsCalls
    /\ spc' = [spc EXCEPT ![c] = "lock"]
    /\ sCalls' = sCalls + 1
    /\ UNCHANGED <<sCount, sAtLock, sRets>>
    /\ UNCHANGED <<serverVars, handlerVars, beaconVars, clientVars, delayVars, genVars,
                   retryVars, mainVars>>

\* GetStats: s.mu.Lock()
StatsLock(c) ==
    /\ spc[c] = "lock"
    /\ mu = "free"
    /\ mu' = c
    /\ spc' = [spc EXCEPT ![c] = "read"]
    /\ sAtLock' = [sAtLock EXCEPT ![c] = passed]
    /\ UNCHANGED <<srvErr, domain, responseIP, ttl, queryCount, sCount, sRets, sCalls>>
    /\ UNCHANGED <<handlerVars, beaconVars, clientVars, delayVars, genVars, retryVars,
                   mainVars>>

\* GetStats: the operands of `return s.queryCount, time.Since(s.startTime)`
StatsRead(c) ==
    /\ spc[c] = "read"
    /\ sCount' = [sCount EXCEPT ![c] = queryCount]
    /\ spc' = [spc EXCEPT ![c] = "unlock"]
    /\ UNCHANGED <<serverVars, sAtLock, sRets, sCalls>>
    /\ UNCHANGED <<handlerVars, beaconVars, clientVars, delayVars, genVars, retryVars,
                   mainVars>>

\* GetStats: the deferred s.mu.Unlock(), and the return
StatsUnlock(c) ==
    /\ spc[c] = "unlock"
    /\ mu' = "free"
    /\ spc' = [spc EXCEPT ![c] = "idle"]
    /\ sRets' = Append(sRets, [by |-> c, count |-> sCount[c], atLock |-> sAtLock[c]])
    /\ UNCHANGED <<srvErr, domain, responseIP, ttl, queryCount, sCount, sAtLock, sCalls>>
    /\ UNCHANGED <<handlerVars, beaconVars, clientVars, delayVars, genVars, retryVars,
                   mainVars>>

\* cmd/server main with one configuration; clients of the datagram and stream listeners
\* send at once
InitStats ==
    /\ NewServer(<<"b", ".", "a">>, "127.0.0.1", 60)
    /\ load = "parallel"
    /\ InitHandlers
    /\ NoBeacon
    /\ NoClient
    /\ NoDelay
    /\ NoGenerator
    /\ NoRetry
    /\ InitStatsCallers
    /\ NoMain

NextStats ==
    \/ \E l \in Listeners :
         \/ AcceptDNS(l)
         \/ Lock(l)
         \/ LoadCount(l)
         \/ StoreCount(l)
         \/ Unlock(l)
         \/ Respond(l)
         \/ Deliver(l)
         \/ Finish(l)
    \/ \E c \in StatsCallers :
         \/ StatsCall(c)
         \/ StatsLock(c)
         \/ StatsRead(c)
         \/ StatsUnlock(c)

SpecStats == InitStats /\ [][NextStats]_vars

\* C24: GetStats reads the counter while it holds the lock that guards the increment:
\* the count it returns is the number of increments completed before it got the lock,
\* and the counts of successive GetStats calls never decrease.
C24_StatsCountUnderLock ==
    /\ \A c \in StatsCallers :
         /\ spc[c] \in {"read", "unlock"} =>
              /\ mu = c
              /\ \A l \in Listeners : pc[l] \notin {"load", "store", "unlock"}
         /\ spc[c] = "unlock" => sCount[c] = sAtLock[c]
    /\ \A i \in 1..Len(sRets) : sRets[i].count = sRets[i].atLock
    /\ \A i, j \in 1..Len(sRets) : i < j => sRets[i].count <= sRets[j].count

\* C24 witness: the printer's call returned 1 and main's later call returned 2, while
\* a third handler holds the lock for its increment
C24_Witness ==
    /\ Len(sRets) = 2
    /\ sRets[1] = [by |-> "printer", count |-> 1, atLock |-> 1]
    /\ sRets[2] = [by |-> "main", count |-> 2, atLock |-> 2]
    /\ \E l \in Listeners : mu = l /\ pc[l] = "store"

\* the handlers' and GetStats's steps between Lock and Unlock are scheduled fairly, and a
\* goroutine waiting for a free lock gets it; nothing is assumed of the steps that build
\* and write a response, which may take for ever
SpecStatsLive ==
    /\ InitStats
    /\ [][NextStats]_vars
    /\ \A l \in Listeners :
         /\ WF_vars(Lock(l))
         /\ WF_vars(LoadCount(l))
         /\ WF_vars(StoreCount(l))
         /\ WF_vars(Unlock(l))
    /\ \A c \in StatsCallers :
         /\ WF_vars(StatsLock(c))
         /\ WF_vars(StatsRead(c))
         /\ WF_vars(StatsUnlock(c))

\* C29: the responder's lock is held only for the counter increment or the statistics
\* read and is released on every path: no listener holds it while it logs, builds the
\* answer or writes the response, so a response write that is slow or fails on one
\* transport never blocks ServeDNS or GetStats for another, and the lock cannot
\* deadlock: whoever waits for it gets it.
C29_LockOnlyAroundCounter ==
    /\ [](/\ \A l \in Listeners : mu = l <=> pc[l] \in {"load", "store", "unlock"}
          /\ \A c \in StatsCallers : mu = c <=> spc[c] \in {"read", "unlock"})
    /\ \A l \in Listeners : (pc[l] = "lock") ~> (pc[l] = "serve")
    /\ \A c \in StatsCallers : (spc[c] = "lock") ~> (spc[c] = "idle")

\* C29 witness: the datagram handler has not yet written its response; since its
\* increment a GetStats call has returned 1 and the stream handler has taken the lock
C29_Witness ==
    /\ pc["udp"] = "serve"
    /\ mu = "dot"
    /\ pc["dot"] = "store"
    /\ tmp["dot"] = 1
    /\ Len(sRets) = 1
    /\ sRets[1].count = 1

(***************************************************************************)
(* cmd/server main from signal.Notify on: the statistics printer and main  *)
(* both receive from sigChan; the listeners report a failed Start on       *)
(* errChan.  The process is sent one signal.                               *)
(***************************************************************************)
\* most ticks of the statistics ticker in one run
MaxTicks == 2

\* cap(sigChan), cap(ticker.C), cap(errChan)
SigChanCap == 1
TickerCap == 1
ErrChanCap == 2

\* main has neither returned nor called log.Fatalf
Running == mpc \in {"select", "stats"}

\* main after signal.Notify and `go func()` of the printer: both at their select
InitMain ==
    /\ NewServer(<<"b", ".", "a">>, "127.0.0.1", 60)
    /\ load = "parallel"
    /\ InitHandlers
    /\ NoBeacon
    /\ NoClient
    /\ NoDelay
    /\ NoGenerator
    /\ NoRetry
    /\ InitStatsCallers
    /\ sigChan = 0
    /\ sigSent = FALSE
    /\ tickC = 0
    /\ ticks = 0
    /\ errChan = 0
    /\ started = Listeners
    /\ mpc = "select"
    /\ ppc = "select"

\* the operating system sends the process SIGINT or SIGTERM: the runtime puts it in
\* sigChan unless the channel is full
OsSignal ==
    /\ Running
    /\ ~sigSent
    /\ sigSent' = TRUE
    /\ sigChan' = IF sigChan < SigChanCap THEN sigChan + 1 ELSE sigChan
    /\ UNCHANGED <<tickC, ticks, errChan, started, mpc, ppc>>
    /\ UNCHANGED <<serverVars, handlerVars, beaconVars, clientVars, delayVars, genVars,
                   retryVars, statsVars>>

\* the ticker fires: a tick is put in ticker.C unless the channel is full
TickerFires ==
    /\ Running
    /\ ppc # "returned"
    /\ ticks < MaxTicks
    /\ ticks' = ticks + 1
    /\ tickC' = IF tickC < TickerCap THEN tickC + 1 ELSE tickC
    /\ UNCHANGED <<sigChan, sigSent, errChan, started, mpc, ppc>>
    /\ UNCHANGED <<serverVars, handlerVars, beaconVars, clientVars, delayVars, genVars,
                   retryVars, statsVars>>

\* the printer's select: a tick calls handler.GetStats(), a signal ends the goroutine;
\* when both channels hold a value either case is taken
PrinterSelect ==
    /\ Running
    /\ ppc = "select"
    /\ \/ /\ tickC > 0
          /\ tickC' = tickC - 1
          /\ ppc' = "stats"
          /\ spc' = [spc EXCEPT !["printer"] = "lock"]
          /\ sCalls' = sCalls + 1
          /\ UNCHANGED sigChan
       \/ /\ sigChan > 0
          /\ sigChan' = sigChan - 1
          /\ ppc' = "returned"
          /\ UNCHANGED <<tickC, spc, sCalls>>
    /\ UNCHANGED <<sigSent, ticks, errChan, started, mpc, sCount, sAtLock, sRets>>
    /\ UNCHANGED <<serverVars, handlerVars, beaconVars, clientVars, delayVars, genVars,
                   retryVars>>

\* the printer prints the statistics and goes back to its select
PrinterPrint ==
    /\ Running
    /\ ppc = "stats"
    /\ spc["printer"] = "idle"
    /\ ppc' = "select"
    /\ UNCHANGED <<sigChan, sigSent, tickC, ticks, errChan, started, mpc>>
    /\ UNCHANGED <<serverVars, handlerVars, beaconVars, clientVars, delayVars, genVars,
                   retryVars, statsVars>>

\* a listener's Start returns an error: its goroutine sends it on errChan, and blocks
\* while the channel is full
ListenerFails(l) ==
    /\ Running
    /\ l \in started
    /\ errChan < ErrChanCap
    /\ errChan' = errChan + 1
    /\ started' = started \ {l}
    /\ UNCHANGED <<sigChan, sigSent, tickC, ticks, mpc, ppc>>
    /\ UNCHANGED <<serverVars, handlerVars, beaconVars, clientVars, delayVars, genVars,
                   retryVars, statsVars>>

\* main's select: a signal calls handler.GetStats() for the final statistics, an error
\* ends the process in log.Fatalf; when both channels hold a value either case is taken
MainSelect ==
    /\ mpc = "select"
    /\ \/ /\ sigChan > 0
          /\ sigChan' = sigChan - 1
          /\ mpc' = "stats"
          /\ spc' = [spc EXCEPT !["main"] = "lock"]
          /\ sCalls' = sCalls + 1
          /\ UNCHANGED errChan
       \/ /\ errChan > 0
          /\ errChan' = errChan - 1
          /\ mpc' = "fatal"
          /\ UNCHANGED <<sigChan, spc, sCalls>>
    /\ UNCHANGED <<sigSent, tickC, ticks, started, ppc, sCount, sAtLock, sRets>>
    /\ UNCHANGED <<serverVars, handlerVars, beaconVars, clientVars, delayVars, genVars,
                   retryVars>>

\* main prints the final statistics and "Shutdown complete", and returns
MainShutdown ==
    /\ mpc = "stats"
    /\ spc["main"] = "idle"
    /\ mpc' = "done"
    /\ UNCHANGED <<sigChan, sigSent, tickC, ticks, errChan, started, ppc>>
    /\ UNCHANGED <<serverVars, handlerVars, beaconVars, clientVars, delayVars, genVars,
                   retryVars, statsVars>>

NextMain ==
    \/ OsSignal
    \/ TickerFires
    \/ PrinterSelect
    \/ PrinterPrint
    \/ \E l \in Listeners : ListenerFails(l)
    \/ MainSelect
    \/ MainShutdown
    \/ \E c \in StatsCallers :
         \/ StatsLock(c)
         \/ StatsRead(c)
         \/ StatsUnlock(c)

SpecMain == InitMain /\ [][NextMain]_vars

\* C30: when the server process is sent a single interrupt or termination signal, it is
\* main that takes the signal from the channel, to print the final statistics and shut
\* down, however main and the statistics printer are scheduled.
C30_SignalIsTakenByMain ==
    (sigSent /\ sigChan = 0) => mpc \in {"stats", "done"}

====
